---- MODULE Spec2Model ----
(***************************************************************************)
(* Bmail: the messaging engine of one client (the local user, "alice")     *)
(* together with the network state it reads and writes.  The coordinator   *)
(* (ui.rs, App and run_app) is modelled operation by operation; the other  *)
(* users of the network appear as peers that publish records and           *)
(* directory entries with the same operations.                             *)
(***************************************************************************)
EXTENDS Integers, Sequences, FiniteSets, TLC

\* ------------------------------------------------------------------ bounds

\* Number of operations (of the local user and of the peers) in one behaviour.
MaxCalls == 2
\* Number of frames the firehose delivers in one behaviour.
MaxFrames == 2

\* ------------------------------------------------------------------ universe

\* Handles the user can type, and the DID each resolves to.  DIDs are
\* ordered as their strings are; the local user's DID sorts between the
\* peers' so that sorting and appending differ.
Handles == {"alice", "bob", "carol"}
LocalHandle == "alice"
Dids == {1, 2, 3}
LocalDid == 2
Peers == Dids \ {LocalDid}
\* What is written at which time: <<created_at, plaintext>>.  Two different
\* texts share a timestamp and one text is written at two times.
Drafts == {<<1, "hi">>, <<1, "yo">>, <<2, "hi">>}
\* Handle lists typed in the recipient box (split(',') yields at least one
\* handle): one peer, two peers in either order, a peer who has published no
\* key, and the user's own handle next to a peer's.
HandleLists ==
    {<<"bob">>, <<"carol">>, <<"bob", "carol">>, <<"carol", "bob">>, <<"bob", "alice">>}

\* Option<Uuid>: None is 0, Some(u) is u > 0.
None == 0
\* ListState.selected(): None is -1.
NoSelection == 0 - 1

resolve_handle(h) ==
    CASE h = "alice" -> 2
      [] h = "bob" -> 3
      [] h = "carol" -> 1

\* ------------------------------------------------------------------ helpers

Max(a, b) == IF a >= b THEN a ELSE b

RECURSIVE InsertSorted(_, _)
InsertSorted(x, s) ==
    IF s = <<>> THEN <<x>>
    ELSE IF x <= Head(s) THEN <<x>> \o s
    ELSE <<Head(s)>> \o InsertSorted(x, Tail(s))

\* Vec::sort on a list of DIDs.
RECURSIVE Sort(_)
Sort(s) == IF s = <<>> THEN <<>> ELSE InsertSorted(Head(s), Sort(Tail(s)))

IsSorted(s) == \A i \in 1..Len(s) : \A j \in 1..Len(s) : i <= j => s[i] <= s[j]

Range(s) == {s[i] : i \in 1..Len(s)}

IsPermutation(s, t) ==
    /\ Len(s) = Len(t)
    /\ \A x \in Range(s) \cup Range(t) :
         Cardinality({i \in 1..Len(s) : s[i] = x}) = Cardinality({i \in 1..Len(t) : t[i] = x})

\* HashMap lookup by key equality, as the loops over the keys compute it.
Lookup(map, key) == IF key \in DOMAIN map THEN map[key] ELSE None

MapInsert(map, key, value) ==
    [k \in (DOMAIN map) \cup {key} |-> IF k = key THEN value ELSE map[k]]

EmptyMap == [k \in {} |-> None]

\* Result: Ok(v), or the error.
Ok(v) == [ok |-> TRUE, val |-> v]
Err == [ok |-> FALSE, val |-> None]

\* key.rs encode / decode of the bmail_rc_map: the wire form is the list of
\* the map's entries (CBOR map, base64), the decoded form is the map again.
encode(map) == {<<k, map[k]>> : k \in DOMAIN map}
decode(enc) == [k \in {p[1] : p \in enc} |-> (CHOOSE p \in enc : p[1] = k)[2]]

\* ------------------------------------------------------------------ state

VARIABLES
    \* App (the coordinator's state)
    recipients_conversation_map,  \* sorted DID list -> Uuid
    conversations,                \* Uuid -> Conversation
    current_conversation_id,      \* Option<Uuid>
    conversation_state,           \* selected message index
    run_app_result,               \* "running", or what run_app returned
    message_rx,                   \* events in the channel from the ingestor
    \* the network
    profiles,                     \* DID -> profile record overlay
    repo_records,                 \* bmail records published, in commit order
    likes,                        \* notification likes created
    next_uuid,                    \* Uuids handed out so far
    firehose_pos,                 \* commits the ingestor has consumed
    socket,                       \* frames the websocket has yet to deliver
    ingestor,                     \* the firehose task: its fate, its await point, its frame
    bsky_lock,                    \* who holds the lock of the network client
    coordinator,                  \* the lock steps left of the coordinator's operation
    \* observation of the operations
    ncalls,                       \* operations performed
    last_call,                    \* the last coordinator operation and its result
    returned,                     \* <<handles, id>> of every successful load
    peer_returned,                \* <<peer, id>> of every load a peer has run
    sent,                         \* frames whose event the ingestor has enqueued
    received,                     \* events the coordinator has taken from the channel
    \* the launch of the client
    key_file,                     \* the text in the identity file
    identity,                     \* the identity the process holds
    own_profile,                  \* the local user's profile record, every field
    feed_posts,                   \* the posts in the local user's feed
    envelope,                     \* a payload on its way through the crypto envelope
    upload                        \* the directory upload of the coordinator: what it read

vars == <<recipients_conversation_map, conversations, current_conversation_id,
          conversation_state, run_app_result, message_rx, profiles, repo_records,
          likes, next_uuid, firehose_pos, socket, ingestor, bsky_lock, coordinator,
          ncalls, last_call, returned, peer_returned, sent, received,
          key_file, identity, own_profile, feed_posts, envelope, upload>>

\* The firehose task of main.rs and what is observed of its channel.
firehose_vars == <<socket, ingestor, bsky_lock, coordinator, sent, received>>

\* The identity file, the profile as initialize publishes it, and the envelope.
startup_vars == <<key_file, identity, own_profile, feed_posts, envelope, upload>>

app_vars == <<recipients_conversation_map, conversations, current_conversation_id,
              conversation_state>>

NoCall == [op |-> "none", n |-> 0, handles |-> <<>>, conv |-> None, msg |-> <<>>,
           result |-> "none", who |-> None, path |-> "none"]

\* A profile record as the engine reads it: the overlay fields.  An Option
\* is a sequence of length 0 (None) or 1 (Some).
Profile(pub_key, sentinel, rc_map) ==
    [bmail_pub_key |-> pub_key, bmail_notification_uri |-> sentinel, bmail_rc_map |-> rc_map]

\* The firehose task before its first frame, on a socket that delivers none.
IngestorIdle == [task |-> "running", pc |-> "next", frame |-> <<>>]

FirehoseQuiet ==
    /\ socket = <<>>
    /\ ingestor = IngestorIdle
    /\ bsky_lock = "none"
    /\ coordinator = <<>>
    /\ sent = <<>>
    /\ received = <<>>

\* The x25519 identities: a secret key, its public key, and their texts.
SecretKeys == {1, 2}
LocalKey == 1
to_public(secret) == secret + 10
PublicKeys == {to_public(k) : k \in SecretKeys} \cup {13}

\* Identity::to_string and Identity::from_str: the secret in its textual
\* form, and the parse that accepts that form alone.
identity_to_string(secret) == <<"AGE-SECRET-KEY-1", secret>>
identity_from_str(text) ==
    IF Len(text) = 2 /\ text[1] = "AGE-SECRET-KEY-1" /\ text[2] \in SecretKeys
    THEN Ok(text[2]) ELSE Err

\* Recipient::to_string and Recipient::from_str, for the public key.
recipient_to_string(public) == <<"age1", public>>
recipient_from_str(text) ==
    IF Len(text) = 2 /\ text[1] = "age1" /\ text[2] \in PublicKeys
    THEN Ok(text[2]) ELSE Err

\* The sentinel post of create_notification_post.
NotificationPost == [text |-> "You've got Bmail", created_at |-> 0]

\* BmailEnabledProfile, every field: the ones of the profile proper and the
\* overlay, each Option a sequence of length 0 or 1.  The uri and the cid of
\* a post are its place in the feed.
FullProfile(display_name, pub_key, notification, rc_map) ==
    [display_name |-> display_name, bmail_pub_key |-> pub_key,
     bmail_notification_uri |-> notification, bmail_notification_cid |-> notification,
     bmail_rc_map |-> rc_map]

NoEnvelope == [stage |-> "none", payload |-> <<>>, recipients |-> <<>>, wire |-> <<>>,
               opened |-> Err]

\* No upload_rc_map_to_profile under way, and none before.
NoUpload == [stage |-> "idle", key |-> <<>>, value |-> None, record |-> Err]

\* The client launched before: its identity in the file, its key and its
\* sentinel post on the profile.
StartupDone ==
    /\ key_file = identity_to_string(LocalKey)
    /\ identity = LocalKey
    /\ own_profile = FullProfile("Alice", <<recipient_to_string(to_public(LocalKey))>>,
                                  <<1>>, <<>>)
    /\ feed_posts = <<NotificationPost>>
    /\ envelope = NoEnvelope
    /\ upload = NoUpload

\* App::default with the identity, the DID and the handle of the local user.
Started ==
    /\ recipients_conversation_map = EmptyMap
    /\ conversations = EmptyMap
    /\ current_conversation_id = None
    /\ conversation_state = NoSelection
    /\ run_app_result = "running"
    /\ message_rx = <<>>
    /\ profiles = [d \in Dids |-> Profile(d # 1, d # 1, <<>>)]
    /\ repo_records = <<>>
    /\ likes = {}
    /\ next_uuid = 0
    /\ firehose_pos = 0
    /\ ncalls = 0
    /\ last_call = NoCall
    /\ returned = {}
    /\ peer_returned = {}

Init == Started /\ FirehoseQuiet /\ StartupDone

\* ------------------------------------------------------------------ crypto envelope

\* age encryption to a list of recipient keys: the ciphertext can be opened
\* by exactly the identities it was sealed to.
Seal(keys, plain) == [sealed_to |-> keys, plain |-> plain]
CanOpen(opener, cipher_text) == opener \in cipher_text.sealed_to

\* ------------------------------------------------------------------ conversation store

Conversation(c_id, participants) ==
    [conversation_id |-> c_id, messages |-> EmptyMap,
     recipient_active_time |-> EmptyMap, participants |-> participants]

\* The insert without the equality test: the next free count, always.
RECURSIVE NextFree(_, _, _)
NextFree(map, created_at, count) ==
    IF <<created_at, count>> \in DOMAIN map THEN NextFree(map, created_at, count + 1)
    ELSE count

insert_without_dedup(map, msg) ==
    MapInsert(map, <<msg.created_at, NextFree(map, msg.created_at, 0)>>, msg)

\* The insert of a map keyed by the timestamp alone: a collision overwrites.
insert_overwriting(map, msg) == MapInsert(map, <<msg.created_at, 0>>, msg)

RECURSIVE InsertFrom(_, _, _)
InsertFrom(map, msg, count) ==
    LET k == <<msg.created_at, count>> IN
    IF k \in DOMAIN map
    THEN IF map[k] = msg THEN map ELSE InsertFrom(map, msg, count + 1)
    ELSE MapInsert(map, k, msg)

\* Collision-safe insert: count starts at 0 and is incremented on collision;
\* an equal message already under the key is left alone.
insert_with_collisions(map, msg) == InsertFrom(map, msg, 0)

\* The conversion that stamps the message with a time of its own instead of
\* the record's.
into_decrypted_message_restamped(record) ==
    IF CanOpen(LocalDid, record.bmail_cipher_text)
    THEN [ok |-> TRUE,
          msg |-> [created_at |-> record.bmail_created_at + 1,
                   creator |-> record.bmail_creator,
                   creator_handle |-> record.bmail_creator_handle,
                   conversation_id |-> record.bmail_conversation_id,
                   message |-> record.bmail_cipher_text.plain,
                   recipients |-> record.bmail_recipients,
                   version |-> record.bmail_version]]
    ELSE [ok |-> FALSE, msg |-> <<>>]

\* BmailMessageRecord::into_decrypted_message: Err when the local identity is
\* not among the keys the cipher text was sealed to.
into_decrypted_message(record) ==
    IF CanOpen(LocalDid, record.bmail_cipher_text)
    THEN [ok |-> TRUE,
          msg |-> [created_at |-> record.bmail_created_at,
                   creator |-> record.bmail_creator,
                   creator_handle |-> record.bmail_creator_handle,
                   conversation_id |-> record.bmail_conversation_id,
                   message |-> record.bmail_cipher_text.plain,
                   recipients |-> record.bmail_recipients,
                   version |-> record.bmail_version]]
    ELSE [ok |-> FALSE, msg |-> <<>>]

ActiveTime(conversation, did) ==
    IF did \in DOMAIN conversation.recipient_active_time
    THEN conversation.recipient_active_time[did] ELSE 0

\* The records of one participant that the backfill looks at, in commit order.
RecordsOf(records, did, c_id) ==
    SelectSeq(records, LAMBDA r : /\ r.repo = did
                                  /\ r.bmail_type = "bmail"
                                  /\ r.bmail_conversation_id = c_id)

\* The backfill that inserts the records whatever their time.
RECURSIVE InsertRecords_ignoring_mark(_, _, _)
InsertRecords_ignoring_mark(map, recs, after) ==
    IF recs = <<>> THEN map
    ELSE LET d == into_decrypted_message(Head(recs))
         IN IF d.ok
            THEN InsertRecords_ignoring_mark(insert_with_collisions(map, d.msg), Tail(recs),
                                             after)
            ELSE InsertRecords_ignoring_mark(map, Tail(recs), after)

RECURSIVE InsertRecords(_, _, _)
InsertRecords(map, recs, after) ==
    IF recs = <<>> THEN map
    ELSE LET r == Head(recs)
             d == into_decrypted_message(r)
         IN IF r.bmail_created_at > after /\ d.ok
            THEN InsertRecords(insert_with_collisions(map, d.msg), Tail(recs), after)
            ELSE InsertRecords(map, Tail(recs), after)

RECURSIVE MaxCreatedAt(_, _)
MaxCreatedAt(recs, floor) ==
    IF recs = <<>> THEN floor
    ELSE MaxCreatedAt(Tail(recs), Max(floor, Head(recs).bmail_created_at))

\* Backfill: for every participant, insert the records newer than the
\* participant's high-water mark and raise the mark.
RECURSIVE update_with_messages_from_participants(_, _, _)
update_with_messages_from_participants(conversation, records, participant_dids) ==
    IF participant_dids = <<>> THEN conversation
    ELSE LET did == Head(participant_dids)
             recs == RecordsOf(records, did, conversation.conversation_id)
             after == ActiveTime(conversation, did)
             next == [conversation EXCEPT
                        !.messages = InsertRecords(@, recs, after),
                        !.recipient_active_time =
                            IF recs = <<>> THEN @
                            ELSE MapInsert(@, did, MaxCreatedAt(recs, after))]
         IN update_with_messages_from_participants(next, records, Tail(participant_dids))

\* ------------------------------------------------------------------ directory

\* get_rc_map_from_profile: Ok(None) when the profile has no bmail_rc_map.
get_rc_map_from_profile(did) ==
    IF profiles[did].bmail_rc_map = <<>> THEN EmptyMap
    ELSE decode(profiles[did].bmail_rc_map[1])

get_cid_from_rc_map_from_profile(participants, fails) ==
    IF fails THEN Err
    ELSE Ok(Lookup(get_rc_map_from_profile(LocalDid), participants))

\* The peers are consulted in the order of the sorted participant list; the
\* local DID is skipped; a failing fetch ends the scan with the error.
RECURSIVE ScanProfiles(_, _, _)
ScanProfiles(participants, rest, failing) ==
    IF rest = <<>> THEN Ok(None)
    ELSE LET participant == Head(rest) IN
         IF participant = LocalDid THEN ScanProfiles(participants, Tail(rest), failing)
         ELSE IF participant \in failing THEN Err
         ELSE LET c_id == Lookup(get_rc_map_from_profile(participant), participants) IN
              IF c_id # None THEN Ok(c_id)
              ELSE ScanProfiles(participants, Tail(rest), failing)

\* The lookup that returns the id of the last participant that holds one.
peer_lookup_last_match(participants, failing) ==
    LET holders == {i \in 1..Len(participants) :
                       /\ participants[i] # LocalDid
                       /\ Lookup(get_rc_map_from_profile(participants[i]), participants) # None}
        last == CHOOSE i \in holders : \A j \in holders : j <= i
    IN IF holders = {} THEN Ok(None)
       ELSE Ok(Lookup(get_rc_map_from_profile(participants[last]), participants))

\* The lookup that consults no peer.
peer_lookup_finds_nothing(participants, failing) == Ok(None)

get_cid_from_rc_map_from_participants_profiles(participants, failing) ==
    ScanProfiles(participants, participants, failing)

\* upload_rc_map_to_profile: the profile with the entry added to its map.
upload_rc_map_to_profile(profile, key, value) ==
    [profile EXCEPT !.bmail_rc_map =
        IF @ = <<>> THEN <<encode(MapInsert(EmptyMap, key, value))>>
        ELSE <<encode(MapInsert(decode(@[1]), key, value))>>]

\* The participant list left in the order the handles were typed.
participant_dids_unsorted(recipients) ==
    LET with_me == Append(recipients, LocalHandle)
    IN [i \in 1..Len(with_me) |-> resolve_handle(with_me[i])]

\* The participant list without the local user.
participant_dids_without_me(recipients) ==
    Sort([i \in 1..Len(recipients) |-> resolve_handle(recipients[i])])

\* The canonical participant list: the handles and the local handle,
\* resolved to DIDs and sorted.
participant_dids(recipients) ==
    LET with_me == Append(recipients, LocalHandle)
    IN Sort([i \in 1..Len(with_me) |-> resolve_handle(with_me[i])])

\* What the network calls of one load do: each may fail.
\* A call after the one that ends the load is never made, so its outcome is
\* left FALSE.
LoadFaults ==
    {f \in [resolve : BOOLEAN, self_map : BOOLEAN, peer_map : SUBSET Peers,
            upload : BOOLEAN, backfill : BOOLEAN] :
        /\ f.resolve => ~f.self_map /\ f.peer_map = {} /\ ~f.upload /\ ~f.backfill
        /\ f.upload => ~f.backfill}

\* ------------------------------------------------------------------ load_conversation

\* The if / else-if chain of load_conversation: the in-memory directory, the
\* local user's profile, the peers' profiles, a new Uuid.  A lookup that
\* returns an error counts as one that found nothing.
lookup_order(in_memory, mine, theirs) ==
    IF in_memory # None THEN "memory"
    ELSE IF mine.ok /\ mine.val # None THEN "self"
    ELSE IF theirs.ok /\ theirs.val # None THEN "peer"
    ELSE "new"

load_conversation(recipients, f) ==
    LET dids == participant_dids(recipients)
        in_memory == Lookup(recipients_conversation_map, dids)
        mine == get_cid_from_rc_map_from_profile(dids, f.self_map)
        theirs == get_cid_from_rc_map_from_participants_profiles(dids, f.peer_map)
        path == lookup_order(in_memory, mine, theirs)
        c_id == CASE path = "memory" -> in_memory
                  [] path = "self" -> mine.val
                  [] path = "peer" -> theirs.val
                  [] path = "new" -> next_uuid + 1
        \* the conversation store after steps 2 to 5
        registered == IF path = "memory" THEN conversations
                      ELSE MapInsert(conversations, c_id, Conversation(c_id, dids))
        upload_failed == path # "memory" /\ f.upload
        \* step 6: the entry is created if missing, then the backfill runs
        ensured == IF c_id \in DOMAIN registered THEN registered
                   ELSE MapInsert(registered, c_id, Conversation(c_id, dids))
        filled == [ensured EXCEPT ![c_id] =
                      update_with_messages_from_participants(@, repo_records, dids)]
        result == IF f.resolve \/ upload_failed \/ f.backfill THEN "NetworkError" ELSE "Ok"
    IN
    /\ run_app_result = "running"
    /\ ncalls < MaxCalls
    /\ ncalls' = ncalls + 1
    /\ last_call' = [op |-> "load_conversation", n |-> ncalls + 1, handles |-> recipients,
                     conv |-> IF f.resolve THEN None ELSE c_id, msg |-> <<>>,
                     result |-> result, who |-> None,
                     path |-> IF f.resolve THEN "none" ELSE path]
    /\ returned' = IF result = "Ok" THEN returned \cup {<<recipients, c_id>>} ELSE returned
    /\ IF f.resolve
       THEN UNCHANGED <<app_vars, profiles, next_uuid>>
       ELSE /\ current_conversation_id' = c_id
            /\ recipients_conversation_map' =
                  IF path = "memory" THEN recipients_conversation_map
                  ELSE MapInsert(recipients_conversation_map, dids, c_id)
            /\ next_uuid' = IF path = "new" THEN next_uuid + 1 ELSE next_uuid
            /\ profiles' =
                  IF path = "memory" \/ upload_failed THEN profiles
                  ELSE [profiles EXCEPT ![LocalDid] = upload_rc_map_to_profile(@, dids, c_id)]
            /\ conversations' =
                  IF upload_failed THEN registered
                  ELSE IF f.backfill THEN ensured
                  ELSE filled
            /\ conversation_state' =
                  IF upload_failed \/ f.backfill THEN conversation_state ELSE NoSelection
    /\ UNCHANGED <<run_app_result, message_rx, repo_records, likes, firehose_pos,
                   peer_returned, firehose_vars, startup_vars>>

LoadConversation == \E recipients \in HandleLists, f \in LoadFaults : load_conversation(recipients, f)

\* ------------------------------------------------------------------ send_bmail

\* DecryptedMessage::into_bmail_record: the key of every recipient is fetched
\* from its profile, in the order of the list; a recipient without a key ends
\* it with MissingRecipient.
\* The key lookup that skips a recipient without a key.
MissingKey_skipped(recipients) == None

RECURSIVE MissingKey(_)
MissingKey(recipients) ==
    IF recipients = <<>> THEN None
    ELSE IF ~profiles[Head(recipients)].bmail_pub_key THEN Head(recipients)
    ELSE MissingKey(Tail(recipients))

into_bmail_record(msg) ==
    [repo |-> msg.creator,
     bmail_created_at |-> msg.created_at,
     bmail_conversation_id |-> msg.conversation_id,
     bmail_cipher_text |-> Seal(Range(msg.recipients), msg.message),
     bmail_type |-> "bmail",
     bmail_version |-> msg.version,
     bmail_recipients |-> msg.recipients,
     bmail_creator |-> msg.creator,
     bmail_creator_handle |-> msg.creator_handle]

\* add_bmail_to_conversation: the store and the selection afterwards, or
\* ConversationNotFound.
add_bmail_to_conversation(conv_id, msg) ==
    IF conv_id \in DOMAIN conversations
    THEN LET messages == insert_with_collisions(conversations[conv_id].messages, msg)
         IN [ok |-> TRUE,
             conversations |-> [conversations EXCEPT ![conv_id].messages = messages],
             conversation_state |-> Cardinality(DOMAIN messages) - 1]
    ELSE [ok |-> FALSE, conversations |-> conversations,
          conversation_state |-> conversation_state]

BmailLike(subject, conversation_id, recipients) ==
    [subject |-> subject, bmail_recipients |-> recipients,
     bmail_conversation_id |-> conversation_id, bmail_type |-> "notification"]

\* notify_recipients: one like per handle, in the order typed; the first
\* failure ends the loop with its error.  fail_at is the position whose
\* network call fails (0: none).
RECURSIVE notify_from(_, _, _, _, _)
notify_from(conversation_id, recipients, i, fail_at, made) ==
    IF i > Len(recipients) THEN [result |-> "Ok", likes |-> made]
    ELSE LET did == resolve_handle(recipients[i]) IN
         IF i = fail_at THEN [result |-> "NetworkError", likes |-> made]
         ELSE IF ~profiles[did].bmail_notification_uri
              THEN [result |-> "MalformedBmail", likes |-> made]
         ELSE notify_from(conversation_id, recipients, i + 1, fail_at,
                          made \cup {BmailLike(did, conversation_id, recipients)})

notify_recipients(conversation_id, recipients, fail_at) ==
    notify_from(conversation_id, recipients, 1, fail_at, {})

\* What the network calls of one send do.
SendFaults ==
    {f \in [resolve : BOOLEAN, profile : BOOLEAN, create_record : BOOLEAN, notify : 0..2] :
        /\ f.resolve => ~f.profile /\ ~f.create_record /\ f.notify = 0
        /\ f.profile => ~f.create_record /\ f.notify = 0
        /\ f.create_record => f.notify = 0}

\* The send that notifies the recipients before it publishes the record.
send_bmail_notifying_first(conversation_id, recipients, text, now, f) ==
    LET dids == Sort([i \in 1..Len(recipients) |-> resolve_handle(recipients[i])])
        msg == [created_at |-> now, creator |-> LocalDid, message |-> text,
                conversation_id |-> conversation_id, recipients |-> dids,
                version |-> 0, creator_handle |-> LocalHandle]
        missing == MissingKey(dids)
        record == into_bmail_record(msg)
        added == add_bmail_to_conversation(conversation_id, msg)
        notified == notify_recipients(conversation_id, recipients, f.notify)
        published == ~f.resolve /\ ~f.profile /\ missing = None /\ ~f.create_record
        result == IF f.resolve \/ f.profile THEN "NetworkError"
                  ELSE IF missing # None THEN "MissingRecipient"
                  ELSE IF f.create_record THEN "NetworkError"
                  ELSE notified.result
    IN
    /\ ncalls' = ncalls + 1
    /\ last_call' = [op |-> "send_bmail", n |-> ncalls + 1, handles |-> recipients,
                     conv |-> conversation_id,
                     msg |-> msg, result |-> result,
                     who |-> IF result = "MissingRecipient" THEN missing ELSE None,
                     path |-> IF published THEN "published"
                              ELSE IF f.create_record /\ missing = None THEN "publish_failed"
                              ELSE "none"]
    /\ likes' = IF published \/ (f.create_record /\ missing = None)
                THEN likes \cup notified.likes ELSE likes
    /\ IF published
       THEN /\ repo_records' = Append(repo_records, record)
            /\ conversations' = added.conversations
            /\ conversation_state' = added.conversation_state
       ELSE UNCHANGED <<repo_records, conversations, conversation_state>>
    /\ UNCHANGED <<recipients_conversation_map, current_conversation_id, run_app_result,
                   message_rx, profiles, next_uuid, firehose_pos, returned,
                   peer_returned, firehose_vars, startup_vars>>

send_bmail(conversation_id, recipients, text, now, f) ==
    LET dids == Sort([i \in 1..Len(recipients) |-> resolve_handle(recipients[i])])
        msg == [created_at |-> now, creator |-> LocalDid, message |-> text,
                conversation_id |-> conversation_id, recipients |-> dids,
                version |-> 0, creator_handle |-> LocalHandle]
        missing == MissingKey(dids)
        record == into_bmail_record(msg)
        added == add_bmail_to_conversation(conversation_id, msg)
        notified == notify_recipients(conversation_id, recipients, f.notify)
        published == ~f.resolve /\ ~f.profile /\ missing = None /\ ~f.create_record
        result == IF f.resolve \/ f.profile THEN "NetworkError"
                  ELSE IF missing # None THEN "MissingRecipient"
                  ELSE IF f.create_record THEN "NetworkError"
                  ELSE notified.result
    IN
    /\ ncalls' = ncalls + 1
    /\ last_call' = [op |-> "send_bmail", n |-> ncalls + 1, handles |-> recipients,
                     conv |-> conversation_id,
                     msg |-> msg, result |-> result,
                     who |-> IF result = "MissingRecipient" THEN missing ELSE None,
                     path |-> IF published THEN "published"
                              ELSE IF f.create_record /\ missing = None THEN "publish_failed"
                              ELSE "none"]
    /\ IF published
       THEN /\ repo_records' = Append(repo_records, record)
            /\ conversations' = added.conversations
            /\ conversation_state' = added.conversation_state
            /\ likes' = likes \cup notified.likes
       ELSE UNCHANGED <<repo_records, conversations, conversation_state, likes>>
    /\ UNCHANGED <<recipients_conversation_map, current_conversation_id, run_app_result,
                   message_rx, profiles, next_uuid, firehose_pos, returned,
                   peer_returned, firehose_vars, startup_vars>>

\* run_app, Enter in the input box: the send goes to the active conversation.
SendBmail ==
    /\ run_app_result = "running"
    /\ ncalls < MaxCalls
    /\ current_conversation_id # None
    /\ \E recipients \in HandleLists, draft \in Drafts, f \in SendFaults :
         /\ f.notify <= Len(recipients)
         /\ send_bmail(current_conversation_id, recipients, draft[2], draft[1], f)

\* ------------------------------------------------------------------ peers

\* A peer with a published key runs the same client: it loads the
\* conversation of itself and the local user, which binds an id in its own
\* directory unless one is bound there already ...
PeerLoad(peer) ==
    LET key == Sort(<<peer, LocalDid>>)
        mine == Lookup(get_rc_map_from_profile(peer), key)
        theirs == Lookup(get_rc_map_from_profile(LocalDid), key)
        c_id == IF mine # None THEN mine ELSE IF theirs # None THEN theirs ELSE next_uuid + 1
    IN
    /\ ncalls < MaxCalls
    /\ profiles[peer].bmail_pub_key
    /\ ncalls' = ncalls + 1
    /\ profiles' = [profiles EXCEPT ![peer] = upload_rc_map_to_profile(@, key, c_id)]
    /\ next_uuid' = IF c_id = next_uuid + 1 THEN next_uuid + 1 ELSE next_uuid
    /\ peer_returned' = peer_returned \cup {<<peer, c_id>>}
    /\ UNCHANGED <<app_vars, run_app_result, message_rx, repo_records, likes,
                   firehose_pos, last_call, returned, firehose_vars, startup_vars>>

\* ... and publishes a record in it, sealed to the handles it typed.
PeerSend(peer, text, now) ==
    LET key == Sort(<<peer, LocalDid>>)
        c_id == Lookup(get_rc_map_from_profile(peer), key)
        msg == [created_at |-> now, creator |-> peer, message |-> text,
                conversation_id |-> c_id, recipients |-> <<LocalDid>>,
                version |-> 0, creator_handle |-> "bob"]
    IN
    /\ ncalls < MaxCalls
    /\ c_id # None
    /\ profiles[LocalDid].bmail_pub_key
    /\ ncalls' = ncalls + 1
    /\ repo_records' = Append(repo_records, into_bmail_record(msg))
    /\ UNCHANGED <<app_vars, run_app_result, message_rx, profiles, likes, next_uuid,
                   firehose_pos, last_call, returned, peer_returned, firehose_vars, startup_vars>>

Peer ==
    \E peer \in Peers :
        \/ PeerLoad(peer)
        \/ \E draft \in Drafts : PeerSend(peer, draft[2], draft[1])

\* ------------------------------------------------------------------ firehose

\* Capacity of the channel between the ingestor and the coordinator.
ChannelCapacity == 32

\* The ingestor takes the next commit of the firehose and enqueues a Message
\* event when it is a bmail record with the local DID among its recipients.
process_message ==
    /\ firehose_pos < Len(repo_records)
    /\ LET record == repo_records[firehose_pos + 1] IN
       IF record.bmail_type = "bmail" /\ LocalDid \in Range(record.bmail_recipients)
       THEN /\ Len(message_rx) < ChannelCapacity
            /\ message_rx' = Append(message_rx, record)
       ELSE UNCHANGED message_rx
    /\ firehose_pos' = firehose_pos + 1
    /\ UNCHANGED <<app_vars, run_app_result, profiles, repo_records, likes, next_uuid,
                   ncalls, last_call, returned, peer_returned, firehose_vars, startup_vars>>

\* run_app, the head of the loop: one event is taken from the channel,
\* decrypted and added to its conversation; an error ends run_app.
Ingest ==
    /\ run_app_result = "running"
    /\ message_rx # <<>>
    /\ LET m == Head(message_rx)
           decrypted == into_decrypted_message(m)
           added == add_bmail_to_conversation(m.bmail_conversation_id, decrypted.msg)
       IN
       /\ message_rx' = Tail(message_rx)
       /\ IF ~decrypted.ok
          THEN /\ run_app_result' = "DecryptError"
               /\ UNCHANGED <<conversations, conversation_state>>
          ELSE /\ run_app_result' = IF added.ok THEN "running" ELSE "ConversationNotFound"
               /\ conversations' = added.conversations
               /\ conversation_state' = added.conversation_state
       /\ last_call' = [op |-> "ingest", n |-> ncalls, handles |-> <<>>,
                        conv |-> m.bmail_conversation_id,
                        msg |-> decrypted.msg,
                        result |-> IF ~decrypted.ok THEN "DecryptError"
                                   ELSE IF added.ok THEN "Ok" ELSE "ConversationNotFound",
                        who |-> m.bmail_creator, path |-> "none"]
    /\ UNCHANGED <<recipients_conversation_map, current_conversation_id, profiles,
                   repo_records, likes, next_uuid, firehose_pos, ncalls, returned,
                   peer_returned, firehose_vars, startup_vars>>

Next ==
    \/ LoadConversation
    \/ SendBmail
    \/ Peer
    \/ process_message
    \/ Ingest

Spec == Init /\ [][Next]_vars

\* The client after load_conversation(["bob"]) has created conversation 1 and
\* recorded it in the profile: the state the operations on an active
\* conversation start from.
InitLoaded ==
    /\ recipients_conversation_map = MapInsert(EmptyMap, <<2, 3>>, 1)
    /\ conversations = MapInsert(EmptyMap, 1, Conversation(1, <<2, 3>>))
    /\ current_conversation_id = 1
    /\ conversation_state = NoSelection
    /\ run_app_result = "running"
    /\ message_rx = <<>>
    /\ profiles = [d \in Dids |->
                     Profile(d # 1, d # 1,
                             IF d = LocalDid THEN <<encode(MapInsert(EmptyMap, <<2, 3>>, 1))>>
                             ELSE <<>>)]
    /\ repo_records = <<>>
    /\ likes = {}
    /\ next_uuid = 1
    /\ firehose_pos = 0
    /\ ncalls = 0
    /\ last_call = NoCall
    /\ returned = {<<<<"bob">>, 1>>}
    /\ peer_returned = {}
    /\ FirehoseQuiet
    /\ StartupDone

\* With a conversation active, the user sends, the peers publish, the
\* firehose delivers, and the conversation is loaded again over a working
\* network.
NoLoadFaults ==
    [resolve |-> FALSE, self_map |-> FALSE, peer_map |-> {}, upload |-> FALSE,
     backfill |-> FALSE]

Reload == \E recipients \in HandleLists : load_conversation(recipients, NoLoadFaults)

NextLoaded ==
    \/ Reload
    \/ SendBmail
    \/ Peer
    \/ process_message
    \/ Ingest

SpecLoaded == InitLoaded /\ [][NextLoaded]_vars

\* InitLoaded is a state of Spec: the one after the first load.
LoadedStateReached ==
    /\ recipients_conversation_map = MapInsert(EmptyMap, <<2, 3>>, 1)
    /\ conversations = MapInsert(EmptyMap, 1, Conversation(1, <<2, 3>>))
    /\ current_conversation_id = 1
    /\ conversation_state = NoSelection
    /\ profiles[LocalDid].bmail_rc_map = <<encode(MapInsert(EmptyMap, <<2, 3>>, 1))>>
    /\ next_uuid = 1
    /\ returned = {<<<<"bob">>, 1>>}

\* The message bob has sent to the local user at time 2.
BobsMessage ==
    [created_at |-> 2, creator |-> 3, message |-> "hi", conversation_id |-> 1,
     recipients |-> <<LocalDid>>, version |-> 0, creator_handle |-> "bob"]

\* The client after bob has published that message in conversation 1 and a
\* load has filled it in: the message is stored and bob's high-water mark
\* is its time.
InitBackfilled ==
    /\ recipients_conversation_map = MapInsert(EmptyMap, <<2, 3>>, 1)
    /\ conversations =
          MapInsert(EmptyMap, 1,
                    [Conversation(1, <<2, 3>>) EXCEPT
                        !.messages = MapInsert(EmptyMap, <<2, 0>>, BobsMessage),
                        !.recipient_active_time = MapInsert(EmptyMap, 3, 2)])
    /\ current_conversation_id = 1
    /\ conversation_state = NoSelection
    /\ run_app_result = "running"
    /\ message_rx = <<>>
    /\ profiles = [d \in Dids |->
                     Profile(d # 1, d # 1,
                             IF d = 1 THEN <<>>
                             ELSE <<encode(MapInsert(EmptyMap, <<2, 3>>, 1))>>)]
    /\ repo_records = <<into_bmail_record(BobsMessage)>>
    /\ likes = {}
    /\ next_uuid = 1
    /\ firehose_pos = 1
    /\ ncalls = 0
    /\ last_call = NoCall
    /\ returned = {<<<<"bob">>, 1>>}
    /\ peer_returned = {<<3, 1>>}
    /\ FirehoseQuiet
    /\ StartupDone

SpecBackfilled == InitBackfilled /\ [][NextLoaded]_vars

\* ------------------------------------------------------------------ directories of several users

\* The client started, over a network whose calls succeed.
SpecReliable == Init /\ [][NextLoaded]_vars

\* The local user and bob have loaded their conversation at the same time:
\* neither found an entry of the other and each bound an id of its own.
InitDiverged ==
    /\ recipients_conversation_map = MapInsert(EmptyMap, <<2, 3>>, 2)
    /\ conversations = MapInsert(EmptyMap, 2, Conversation(2, <<2, 3>>))
    /\ current_conversation_id = 2
    /\ conversation_state = NoSelection
    /\ run_app_result = "running"
    /\ message_rx = <<>>
    /\ profiles = [d \in Dids |->
                     Profile(d # 1, d # 1,
                             CASE d = LocalDid -> <<encode(MapInsert(EmptyMap, <<2, 3>>, 2))>>
                               [] d = 3 -> <<encode(MapInsert(EmptyMap, <<2, 3>>, 1))>>
                               [] OTHER -> <<>>)]
    /\ repo_records = <<>>
    /\ likes = {}
    /\ next_uuid = 2
    /\ firehose_pos = 0
    /\ ncalls = 0
    /\ last_call = NoCall
    /\ returned = {}
    /\ peer_returned = {}
    /\ FirehoseQuiet
    /\ StartupDone

SpecDiverged == InitDiverged /\ [][NextLoaded]_vars

\* InitDiverged is a state of Spec: bob has loaded, and the local user's
\* load has not seen his entry.
DivergedStateReached ==
    /\ recipients_conversation_map = MapInsert(EmptyMap, <<2, 3>>, 2)
    /\ conversations = MapInsert(EmptyMap, 2, Conversation(2, <<2, 3>>))
    /\ current_conversation_id = 2
    /\ profiles[LocalDid].bmail_rc_map = <<encode(MapInsert(EmptyMap, <<2, 3>>, 2))>>
    /\ profiles[3].bmail_rc_map = <<encode(MapInsert(EmptyMap, <<2, 3>>, 1))>>
    /\ next_uuid = 2

\* The client started, while the directory that bob's profile publishes
\* binds two participant lists to one id.
InitSharedId ==
    /\ recipients_conversation_map = EmptyMap
    /\ conversations = EmptyMap
    /\ current_conversation_id = None
    /\ conversation_state = NoSelection
    /\ run_app_result = "running"
    /\ message_rx = <<>>
    /\ profiles = [d \in Dids |->
                     Profile(d # 1, d # 1,
                             IF d = 3
                             THEN <<encode(MapInsert(MapInsert(EmptyMap, <<2, 3>>, 1),
                                                     <<1, 2, 3>>, 1))>>
                             ELSE <<>>)]
    /\ repo_records = <<>>
    /\ likes = {}
    /\ next_uuid = 1
    /\ firehose_pos = 0
    /\ ncalls = 0
    /\ last_call = NoCall
    /\ returned = {}
    /\ peer_returned = {}
    /\ FirehoseQuiet
    /\ StartupDone

SpecSharedId == InitSharedId /\ [][NextLoaded]_vars

\* The same directories once the client has loaded its conversation with bob
\* and adopted the id of his profile.
InitSharedIdLoaded ==
    /\ recipients_conversation_map = MapInsert(EmptyMap, <<2, 3>>, 1)
    /\ conversations = MapInsert(EmptyMap, 1, Conversation(1, <<2, 3>>))
    /\ current_conversation_id = 1
    /\ conversation_state = NoSelection
    /\ run_app_result = "running"
    /\ message_rx = <<>>
    /\ profiles = [d \in Dids |->
                     Profile(d # 1, d # 1,
                             CASE d = LocalDid -> <<encode(MapInsert(EmptyMap, <<2, 3>>, 1))>>
                               [] d = 3 -> <<encode(MapInsert(MapInsert(EmptyMap, <<2, 3>>, 1),
                                                              <<1, 2, 3>>, 1))>>
                               [] OTHER -> <<>>)]
    /\ repo_records = <<>>
    /\ likes = {}
    /\ next_uuid = 1
    /\ firehose_pos = 0
    /\ ncalls = 0
    /\ last_call = NoCall
    /\ returned = {<<<<"bob">>, 1>>}
    /\ peer_returned = {}
    /\ FirehoseQuiet
    /\ StartupDone

SpecSharedIdLoaded == InitSharedIdLoaded /\ [][NextLoaded]_vars

\* InitSharedIdLoaded is a state of SpecSharedId: the one after the load of
\* the conversation with bob.
SharedIdLoadedReached ==
    /\ recipients_conversation_map = MapInsert(EmptyMap, <<2, 3>>, 1)
    /\ conversations = MapInsert(EmptyMap, 1, Conversation(1, <<2, 3>>))
    /\ current_conversation_id = 1
    /\ profiles[LocalDid].bmail_rc_map = <<encode(MapInsert(EmptyMap, <<2, 3>>, 1))>>
    /\ next_uuid = 1
    /\ returned = {<<<<"bob">>, 1>>}

\* The client launched again on the diverged directories: the in-memory
\* directory is empty, the local user's profile binds the conversation with
\* bob to 2 and bob's profile binds it to 1.
InitRestarted ==
    /\ recipients_conversation_map = EmptyMap
    /\ conversations = EmptyMap
    /\ current_conversation_id = None
    /\ conversation_state = NoSelection
    /\ run_app_result = "running"
    /\ message_rx = <<>>
    /\ profiles = [d \in Dids |->
                     Profile(d # 1, d # 1,
                             CASE d = LocalDid -> <<encode(MapInsert(EmptyMap, <<2, 3>>, 2))>>
                               [] d = 3 -> <<encode(MapInsert(EmptyMap, <<2, 3>>, 1))>>
                               [] OTHER -> <<>>)]
    /\ repo_records = <<>>
    /\ likes = {}
    /\ next_uuid = 2
    /\ firehose_pos = 0
    /\ ncalls = 0
    /\ last_call = NoCall
    /\ returned = {}
    /\ peer_returned = {}
    /\ FirehoseQuiet
    /\ StartupDone

\* The same launch while every fetch of the local user's own bmail_rc_map
\* fails.
SelfMapDown == {f \in LoadFaults : f.self_map}

LoadWhileSelfMapDown ==
    \E recipients \in HandleLists, f \in SelfMapDown : load_conversation(recipients, f)

NextSelfMapDown ==
    \/ LoadWhileSelfMapDown
    \/ SendBmail
    \/ Peer
    \/ process_message
    \/ Ingest

SpecSelfMapDown == InitRestarted /\ [][NextSelfMapDown]_vars

\* The client started, after bob has loaded the conversation of the three
\* users and bound it to 1 in his profile ...
InitGroup ==
    /\ recipients_conversation_map = EmptyMap
    /\ conversations = EmptyMap
    /\ current_conversation_id = None
    /\ conversation_state = NoSelection
    /\ run_app_result = "running"
    /\ message_rx = <<>>
    /\ profiles = [d \in Dids |->
                     Profile(d # 1, d # 1,
                             IF d = 3 THEN <<encode(MapInsert(EmptyMap, <<1, 2, 3>>, 1))>>
                             ELSE <<>>)]
    /\ repo_records = <<>>
    /\ likes = {}
    /\ next_uuid = 1
    /\ firehose_pos = 0
    /\ ncalls = 0
    /\ last_call = NoCall
    /\ returned = {}
    /\ peer_returned = {}
    /\ FirehoseQuiet
    /\ StartupDone

\* ... while every fetch of carol's profile fails and every other call
\* succeeds.
CarolDown == [NoLoadFaults EXCEPT !.peer_map = {1}]

LoadWhileCarolDown == \E recipients \in HandleLists : load_conversation(recipients, CarolDown)

NextCarolDown ==
    \/ LoadWhileCarolDown
    \/ SendBmail
    \/ Peer
    \/ process_message
    \/ Ingest

SpecCarolDown == InitGroup /\ [][NextCarolDown]_vars

\* ------------------------------------------------------------------ scrolling the messages

\* Selections that are followed: the first ones and the last ones of usize.
MaxScroll == 2

\* The greatest index: usize::MAX, for which the greatest integer of the
\* checker stands.
UsizeMax == 2147483647

\* What stands for an index when the arithmetic that computes it panics.
Panicked == -2

\* messages.len() - 1 in usize: on an empty map the subtraction overflows,
\* which panics in a build with overflow checks and wraps in one without.
len_minus_one(len) == IF len = 0 THEN {Panicked, UsizeMax} ELSE {len - 1}

\* The selection after Up: the one before, the last from the first, the
\* first from none.
scroll_up(selected, last) ==
    IF selected = NoSelection THEN 0
    ELSE IF selected = 0 THEN last
    ELSE selected - 1

\* The selection after Down: the one after, the first from the last or
\* beyond, the first from none.
scroll_down(selected, last) ==
    IF selected = NoSelection THEN 0
    ELSE IF last = Panicked THEN Panicked
    ELSE IF selected >= last THEN 0
    ELSE selected + 1

scroll_unchanged ==
    UNCHANGED <<recipients_conversation_map, conversations, current_conversation_id,
                message_rx, profiles, repo_records, likes, next_uuid, firehose_pos,
                ncalls, last_call, returned, peer_returned, firehose_vars, startup_vars>>

\* The selection moves, or the subtraction has panicked and run_app ends.
Scroll(i) ==
    /\ IF i = Panicked
       THEN /\ run_app_result' = "panic"
            /\ UNCHANGED conversation_state
       ELSE /\ i <= MaxScroll \/ i >= UsizeMax - MaxScroll
            /\ conversation_state' = i
            /\ UNCHANGED run_app_result
    /\ scroll_unchanged

\* run_app, Up in ScrollingMessages: nothing without an active conversation.
ScrollUp ==
    /\ run_app_result = "running"
    /\ current_conversation_id # None
    /\ current_conversation_id \in DOMAIN conversations
    /\ LET len == Cardinality(DOMAIN conversations[current_conversation_id].messages)
       IN \E last \in len_minus_one(len) : Scroll(scroll_up(conversation_state, last))

\* run_app, Down in ScrollingMessages.
ScrollDown ==
    /\ run_app_result = "running"
    /\ current_conversation_id # None
    /\ current_conversation_id \in DOMAIN conversations
    /\ LET len == Cardinality(DOMAIN conversations[current_conversation_id].messages)
       IN \E last \in len_minus_one(len) : Scroll(scroll_down(conversation_state, last))

NextScroll ==
    \/ LoadConversation
    \/ SendBmail
    \/ Peer
    \/ process_message
    \/ Ingest
    \/ ScrollUp
    \/ ScrollDown

SpecScroll == Init /\ [][NextScroll]_vars

\* ------------------------------------------------------------------ the firehose task

\* A frame of the subscription as process_message takes it apart: the
\* websocket message, the decoded header and body, the commit's operations
\* and block store, and the record under the first operation's content-id.
\* The text of the post is kept as its parts between "::"; a record may carry
\* overlay fields that the post parser does not read.
Dm ==
    [wire |-> "binary", decodes |-> TRUE, body |-> "commit", repo |-> 3,
     operations |-> <<[path |-> "app.bsky.feed.post/", cid |-> 1]>>,
     blocks |-> [readable |-> TRUE, cids |-> {1}],
     record |-> [parses |-> TRUE, starts_with_dm |-> TRUE, mentions |-> {"alice"},
                 fields |-> <<"/dm", "alice", Seal({LocalDid}, "hi")>>,
                 created_at |-> 1, bmail_type |-> "none", bmail_recipients |-> <<>>]]

\* The frames the firehose carries: the direct message above and its
\* variations, one for each test process_message makes.
Frames ==
    {Dm,
     [Dm EXCEPT !.wire = "ping"],
     [Dm EXCEPT !.decodes = FALSE],
     [Dm EXCEPT !.body = "info"],
     [Dm EXCEPT !.operations = <<>>],
     [Dm EXCEPT !.operations = <<[path |-> "app.bsky.actor.profile/", cid |-> 1]>>,
                !.record.bmail_type = "bmail", !.record.bmail_recipients = <<2, 3>>],
     [Dm EXCEPT !.operations = <<[path |-> "app.bsky.feed.post/", cid |-> None]>>],
     [Dm EXCEPT !.blocks.readable = FALSE],
     [Dm EXCEPT !.blocks.cids = {}],
     [Dm EXCEPT !.record.parses = FALSE],
     [Dm EXCEPT !.record.starts_with_dm = FALSE],
     [Dm EXCEPT !.record.mentions = {"carol"}, !.record.fields[2] = "carol"],
     [Dm EXCEPT !.record.fields = <<"/dm @alice", "hi">>],
     [Dm EXCEPT !.record.fields[3] = Seal({3}, "hi")],
     [Dm EXCEPT !.record.bmail_type = "bmail", !.record.bmail_recipients = <<3>>],
     [Dm EXCEPT !.record.bmail_type = "notification"]}

FrameStreams == UNION {[1..n -> Frames] : n \in 0..MaxFrames}

handle_of(did) == CHOOSE h \in Handles : resolve_handle(h) = did

\* The message struct built from a frame and sent on the channel.
BMessage(frame) ==
    LET raw_text == frame.record.fields IN
    [command |-> raw_text[1], recipient_did |-> raw_text[2],
     sender_did |-> handle_of(frame.repo), created_at |-> frame.record.created_at,
     raw_message |-> raw_text[3], message |-> raw_text[3].plain]

\* From the decoding of the frame to the first await: the frame is skipped,
\* an unwrap panics, or the sender's profile is fetched.
examine(frame) ==
    IF ~frame.decodes THEN "panic"
    ELSE IF frame.body # "commit" THEN "skip"
    ELSE IF frame.operations = <<>> THEN "skip"
    ELSE LET operation == frame.operations[1] IN
         IF operation.path # "app.bsky.feed.post/" THEN "skip"
         ELSE IF operation.cid = None THEN "skip"
         ELSE IF ~frame.blocks.readable THEN "panic"
         ELSE IF operation.cid \notin frame.blocks.cids THEN "panic"
         ELSE IF ~frame.record.parses THEN "panic"
         ELSE IF ~frame.record.starts_with_dm THEN "skip"
         ELSE IF LocalHandle \notin frame.record.mentions THEN "skip"
         ELSE "get_profile"

\* From the sender's profile to the send: a text that does not split in
\* three is skipped, a payload the identity cannot open ends the task.
decrypt_dm(frame) ==
    LET raw_text == frame.record.fields IN
    IF Len(raw_text) # 3 THEN "skip"
    ELSE IF ~CanOpen(LocalDid, raw_text[3]) THEN "DecryptError"
    ELSE "send"

\* The channel accepts as if it had no capacity limit.
has_capacity_unbounded(queue) == TRUE

\* mpsc::channel(32): a send completes while fewer than 32 events wait.
has_capacity(queue) == Len(queue) < ChannelCapacity

\* socket.next(), the lock, and the frame up to its first await.
process_message_next ==
    /\ ingestor.task = "running"
    /\ ingestor.pc = "next"
    /\ IF socket = <<>> \/ Head(socket).wire # "binary"
       THEN /\ ingestor' = [ingestor EXCEPT !.task = "Ok"]
            /\ socket' = IF socket = <<>> THEN socket ELSE Tail(socket)
            /\ UNCHANGED bsky_lock
       ELSE LET frame == Head(socket)
                outcome == examine(frame)
            IN /\ bsky_lock = "none"
               /\ socket' = Tail(socket)
               /\ ingestor' = CASE outcome = "panic" ->
                                      [task |-> "panicked", pc |-> "next", frame |-> frame]
                                [] outcome = "skip" -> IngestorIdle
                                [] outcome = "get_profile" ->
                                      [task |-> "running", pc |-> "get_profile", frame |-> frame]
               /\ bsky_lock' = IF outcome = "get_profile" THEN "ingestor" ELSE "none"
    /\ UNCHANGED <<startup_vars, app_vars, run_app_result, message_rx, profiles, repo_records, likes,
                   next_uuid, firehose_pos, ncalls, last_call, returned, peer_returned,
                   sent, received, coordinator>>

\* get_profile_other(...).await under the lock, then the decryption.
process_message_get_profile ==
    /\ ingestor.task = "running"
    /\ ingestor.pc = "get_profile"
    /\ \E fails \in BOOLEAN :
          LET outcome == IF fails THEN "panic" ELSE decrypt_dm(ingestor.frame) IN
          /\ ingestor' = CASE outcome = "panic" -> [ingestor EXCEPT !.task = "panicked"]
                           [] outcome = "skip" -> IngestorIdle
                           [] outcome = "DecryptError" ->
                                 [ingestor EXCEPT !.task = "DecryptError"]
                           [] outcome = "send" -> [ingestor EXCEPT !.pc = "send"]
          /\ bsky_lock' = IF outcome = "send" THEN bsky_lock ELSE "none"
    /\ UNCHANGED <<startup_vars, app_vars, run_app_result, message_rx, profiles, repo_records, likes,
                   next_uuid, firehose_pos, socket, ncalls, last_call, returned,
                   peer_returned, sent, received, coordinator>>

\* tx.send(message_struct).await: waits while the channel is full, fails
\* when the receiver is gone; the lock taken for the frame is still held.
process_message_send ==
    /\ ingestor.task = "running"
    /\ ingestor.pc = "send"
    /\ IF run_app_result # "running"
       THEN /\ ingestor' = [ingestor EXCEPT !.task = "TokioSendError"]
            /\ UNCHANGED <<message_rx, sent>>
       ELSE /\ has_capacity(message_rx)
            /\ message_rx' = Append(message_rx, BMessage(ingestor.frame))
            /\ sent' = Append(sent, ingestor.frame)
            /\ ingestor' = IngestorIdle
    /\ bsky_lock' = "none"
    /\ UNCHANGED <<startup_vars, app_vars, run_app_result, profiles, repo_records, likes, next_uuid,
                   firehose_pos, socket, ncalls, last_call, returned, peer_returned,
                   received, coordinator>>

\* The receiver that reports an ended sender as an empty channel.
try_recv_ignoring_disconnect(queue, sender_alive) ==
    IF queue # <<>> THEN "Ok" ELSE "Empty"

\* rx.try_recv(): buffered events first, then Empty while the sender lives
\* and Disconnected once it is dropped.
try_recv(queue, sender_alive) ==
    IF queue # <<>> THEN "Ok"
    ELSE IF sender_alive THEN "Empty"
    ELSE "Disconnected"

\* run_app, the head of the loop, as the channel sees it: the event is taken
\* and its handling lets run_app go on or ends it with an error; a
\* disconnected channel ends it with FirehoseProcessCrashed.
Poll ==
    /\ run_app_result = "running"
    /\ coordinator = <<>>
    /\ LET polled == try_recv(message_rx, ingestor.task = "running") IN
       \E handled \in {"running", "DecryptError", "ConversationNotFound"} :
          /\ polled # "Ok" => handled = "running"
          /\ message_rx' = IF polled = "Ok" THEN Tail(message_rx) ELSE message_rx
          /\ received' = IF polled = "Ok" THEN Append(received, Head(message_rx))
                         ELSE received
          /\ run_app_result' = CASE polled = "Ok" -> handled
                                 [] polled = "Empty" -> "running"
                                 [] polled = "Disconnected" -> "FirehoseProcessCrashed"
          /\ last_call' = [NoCall EXCEPT !.op = "poll", !.result = polled]
    /\ UNCHANGED <<startup_vars, app_vars, profiles, repo_records, likes, next_uuid, firehose_pos,
                   socket, ingestor, bsky_lock, coordinator, ncalls, returned, peer_returned,
                   sent>>

NextFirehose ==
    \/ process_message_next
    \/ process_message_get_profile
    \/ process_message_send
    \/ Poll

\* The client started, on a firehose that delivers any frames.
InitFirehose ==
    /\ Started
    /\ StartupDone
    /\ socket \in FrameStreams
    /\ ingestor = IngestorIdle
    /\ bsky_lock = "none"
    /\ coordinator = <<>>
    /\ sent = <<>>
    /\ received = <<>>

SpecFirehose == InitFirehose /\ [][NextFirehose]_vars

\* The client started, on a firehose that delivers more direct messages to
\* the local user than the channel holds, each with a time of its own.
InitChannel ==
    /\ Started
    /\ StartupDone
    /\ socket = [i \in 1..(ChannelCapacity + 2) |-> [Dm EXCEPT !.record.created_at = i]]
    /\ ingestor = IngestorIdle
    /\ bsky_lock = "none"
    /\ coordinator = <<>>
    /\ sent = <<>>
    /\ received = <<>>

SpecChannel == InitChannel /\ [][NextFirehose]_vars

\* ------------------------------------------------------------------ the lock of the network client

\* The write lock taken for one call and dropped after it, n times over.
RECURSIVE Sections(_)
Sections(n) == IF n = 0 THEN <<>> ELSE <<"lock", "unlock">> \o Sections(n - 1)

\* send_bmail on n handles over a working network: a guard for the
\* resolve_handle calls, one in get_recipient_for_bskyer for each recipient
\* of into_bmail_record, one for create_record, and in notify_recipients one
\* in get_recipient_for_bskyer and one for the like of each handle.
send_bmail_locks(n) == Sections(1 + n + 1 + 2 * n)

\* load_conversation over a working network: a guard for the resolve_handle
\* calls; off the in-memory directory one in get_rc_map_from_profile for the
\* own profile, one for each of the looked peers, and the two of
\* upload_rc_map_to_profile.
load_conversation_locks(path, looked) ==
    IF path = "memory" THEN Sections(1) ELSE Sections(1 + 1 + looked + 2)

\* The operations that Enter starts in run_app, as the lock sees them.
LockScripts ==
    {send_bmail_locks(n) : n \in 1..2}
      \cup {load_conversation_locks("memory", 0), load_conversation_locks("self", 0)}
      \cup {load_conversation_locks("new", looked) : looked \in 1..2}

lock_unchanged ==
    UNCHANGED <<startup_vars, app_vars, run_app_result, message_rx, profiles, repo_records,
                likes, next_uuid, firehose_pos, socket, ingestor, ncalls, last_call,
                returned, peer_returned, sent, received>>

\* run_app, Enter in the input box or in the recipient box: send_bmail or
\* load_conversation is awaited, and the loop is at its head again only when
\* that has returned.
coordinator_begin ==
    /\ run_app_result = "running"
    /\ coordinator = <<>>
    /\ \E script \in LockScripts : coordinator' = script
    /\ UNCHANGED bsky_lock
    /\ lock_unchanged

\* self.bluesky.0.write().await, which waits while a guard lives, and the
\* drop of the guard at the end of its scope.
coordinator_step ==
    /\ coordinator # <<>>
    /\ IF Head(coordinator) = "lock"
       THEN /\ bsky_lock = "none"
            /\ bsky_lock' = "coordinator"
       ELSE bsky_lock' = "none"
    /\ coordinator' = Tail(coordinator)
    /\ lock_unchanged

NextLocks ==
    \/ process_message_next
    \/ process_message_get_profile
    \/ process_message_send
    \/ Poll
    \/ coordinator_begin
    \/ coordinator_step

\* Both tasks on a firehose that delivers more direct messages than the
\* channel holds.
SpecLocks == InitChannel /\ [][NextLocks]_vars

\* ------------------------------------------------------------------ the peer lookup on any directories

\* The participant lists a directory may bind, and the ids it may bind them to.
LookupKeys == {<<2, 3>>, <<1, 2>>, <<1, 2, 3>>}
PeerIds == {1, 2}
Directories == UNION {[keys -> PeerIds] : keys \in SUBSET LookupKeys}
OwnDirectories == {EmptyMap, MapInsert(EmptyMap, <<1, 2, 3>>, 3)}

\* The client started, whatever the profiles of the three users publish.
InitDirectories ==
    /\ recipients_conversation_map = EmptyMap
    /\ conversations = EmptyMap
    /\ current_conversation_id = None
    /\ conversation_state = NoSelection
    /\ run_app_result = "running"
    /\ message_rx = <<>>
    /\ profiles \in {[d \in Dids |->
                         LET rc_map == IF d = LocalDid THEN own ELSE theirs[d]
                         IN Profile(d # 1, d # 1,
                                    IF rc_map = EmptyMap THEN <<>> ELSE <<encode(rc_map)>>)] :
                         theirs \in [Peers -> Directories], own \in OwnDirectories}
    /\ repo_records = <<>>
    /\ likes = {}
    /\ next_uuid = 3
    /\ firehose_pos = 0
    /\ ncalls = 0
    /\ last_call = NoCall
    /\ returned = {}
    /\ peer_returned = {}
    /\ FirehoseQuiet
    /\ StartupDone

\* load_conversation's call of the peer lookup, on its own: the sorted list
\* is looked up in the profiles of its participants.
PeerLookup ==
    \E participants \in LookupKeys, failing \in SUBSET Peers :
        LET found == get_cid_from_rc_map_from_participants_profiles(participants, failing)
        IN /\ last_call' = [NoCall EXCEPT !.op = "peer_lookup", !.handles = participants,
                                          !.conv = found.val,
                                          !.result = IF found.ok THEN "Ok" ELSE "NetworkError"]
           /\ UNCHANGED <<app_vars, run_app_result, message_rx, profiles, repo_records,
                          likes, next_uuid, firehose_pos, ncalls, returned, peer_returned,
                          firehose_vars, startup_vars>>

NextPeerLookup == PeerLookup

SpecPeerLookup == InitDirectories /\ [][NextPeerLookup]_vars

\* ------------------------------------------------------------------ the envelope, byte by byte

\* The bytes of a payload and its greatest length.
MaxPayload == 3
PayloadBytes == {0, 65, 127}
Payloads == UNION {[1..n -> PayloadBytes] : n \in 0..MaxPayload}
RecipientLists == UNION {[1..n -> PublicKeys] : n \in 0..2}
FileKeys == {1, 200}

Failure(error) == [ok |-> FALSE, val |-> error]

\* ciborium: a text of fewer than 24 bytes is the byte 0x60 + length and
\* then the bytes; the reader takes one item from the front.
cbor_ser(payload) == <<96 + Len(payload)>> \o payload
cbor_de(bytes) ==
    IF bytes = <<>> THEN Failure("CborError")
    ELSE IF bytes[1] < 96 \/ bytes[1] > 119 THEN Failure("CborError")
    ELSE IF Len(bytes) < bytes[1] - 95 THEN Failure("CborError")
    ELSE Ok(SubSeq(bytes, 2, bytes[1] - 95))

\* age: the payload is masked under a file key; the header carries one
\* stanza per recipient, the file key wrapped to the recipient's public key,
\* and the mac of the file key.  An identity unwraps each stanza and keeps
\* the stanza whose file key the mac accepts.
mac(file_key) == (file_key * 7 + 3) % 256
wrap(file_key, public) == (file_key + public) % 256
unwrap(wrapped, secret) == (wrapped + 256 - to_public(secret)) % 256
mask(plain, file_key) == [i \in 1..Len(plain) |-> (plain[i] + file_key + i) % 256]
unmask(body, file_key) == [i \in 1..Len(body) |-> (body[i] + 512 - file_key - i) % 256]

age_encrypt(recipients, file_key, plain) ==
    <<Len(recipients)>> \o [i \in 1..Len(recipients) |-> wrap(file_key, recipients[i])]
        \o <<mac(file_key)>> \o mask(plain, file_key)

\* The decryption that tries the first stanza alone.
age_decrypt_first_stanza(secret, bytes) ==
    IF bytes = <<>> THEN Failure("DecryptError")
    ELSE IF bytes[1] = 0 \/ Len(bytes) < bytes[1] + 2 THEN Failure("DecryptError")
    ELSE IF mac(unwrap(bytes[2], secret)) # bytes[bytes[1] + 2] THEN Failure("DecryptError")
    ELSE Ok(unmask(SubSeq(bytes, bytes[1] + 3, Len(bytes)), unwrap(bytes[2], secret)))

age_decrypt(secret, bytes) ==
    IF bytes = <<>> THEN Failure("DecryptError")
    ELSE IF bytes[1] = 0 \/ Len(bytes) < bytes[1] + 2 THEN Failure("DecryptError")
    ELSE LET n == bytes[1]
             matching == {i \in 1..n : mac(unwrap(bytes[i + 1], secret)) = bytes[n + 2]}
         IN IF matching = {} THEN Failure("DecryptError")
            ELSE LET file_key == unwrap(bytes[(CHOOSE i \in matching : TRUE) + 1], secret)
                 IN Ok(unmask(SubSeq(bytes, n + 3, Len(bytes)), file_key))

\* base64, STANDARD_NO_PAD: three bytes are four symbols of six bits, a
\* rest of one or two bytes is two or three symbols and no padding.  A symbol
\* is its place in the alphabet.
RECURSIVE base64_encode(_)
base64_encode(bytes) ==
    IF bytes = <<>> THEN <<>>
    ELSE IF Len(bytes) = 1 THEN <<bytes[1] \div 4, (bytes[1] % 4) * 16>>
    ELSE IF Len(bytes) = 2
         THEN LET n == bytes[1] * 256 + bytes[2]
              IN <<n \div 1024, (n \div 16) % 64, (n % 16) * 4>>
    ELSE LET n == bytes[1] * 65536 + bytes[2] * 256 + bytes[3]
         IN <<n \div 262144, (n \div 4096) % 64, (n \div 64) % 64, n % 64>>
                \o base64_encode(SubSeq(bytes, 4, Len(bytes)))

\* The decoder rejects a symbol outside the alphabet, a rest of one symbol,
\* and a last symbol whose unused bits are set.
RECURSIVE base64_decode(_)
base64_decode(symbols) ==
    IF symbols = <<>> THEN Ok(<<>>)
    ELSE IF \E i \in 1..Len(symbols) : symbols[i] \notin 0..63 THEN Failure("DecodeError")
    ELSE IF Len(symbols) = 1 THEN Failure("DecodeError")
    ELSE IF Len(symbols) = 2
         THEN IF symbols[2] % 16 # 0 THEN Failure("DecodeError")
              ELSE Ok(<<symbols[1] * 4 + symbols[2] \div 16>>)
    ELSE IF Len(symbols) = 3
         THEN IF symbols[3] % 4 # 0 THEN Failure("DecodeError")
              ELSE LET n == symbols[1] * 4096 + symbols[2] * 64 + symbols[3]
                   IN Ok(<<n \div 1024, (n \div 4) % 256>>)
    ELSE LET n == symbols[1] * 262144 + symbols[2] * 4096 + symbols[3] * 64 + symbols[4]
             rest == base64_decode(SubSeq(symbols, 5, Len(symbols)))
         IN IF rest.ok THEN Ok(<<n \div 65536, (n \div 256) % 256, n % 256>> \o rest.val)
            ELSE rest

\* encrypt_and_encode: CBOR, age to the recipients, base64.  Without a
\* recipient the encryptor is None and the expect panics.
encrypt_and_encode(recipients, payload, file_key) ==
    IF recipients = <<>> THEN [result |-> "panic", wire |-> <<>>]
    ELSE [result |-> "Ok",
          wire |-> base64_encode(age_encrypt(recipients, file_key, cbor_ser(payload)))]

\* decrypt_and_decode: base64, age with the identity, CBOR.
decrypt_and_decode(secret, payload) ==
    LET decoded == base64_decode(payload)
        decrypted == age_decrypt(secret, decoded.val)
    IN IF ~decoded.ok THEN decoded
       ELSE IF ~decrypted.ok THEN decrypted
       ELSE cbor_de(decrypted.val)

\* A payload and its recipients, before encrypt_and_encode.
InitEnvelope ==
    /\ Started
    /\ FirehoseQuiet
    /\ identity \in SecretKeys
    /\ key_file = identity_to_string(identity)
    /\ own_profile = FullProfile("Alice", <<recipient_to_string(to_public(identity))>>,
                                  <<1>>, <<>>)
    /\ feed_posts = <<NotificationPost>>
    /\ envelope \in {[stage |-> "plain", payload |-> p, recipients |-> r, wire |-> <<>>,
                       opened |-> Err] : p \in Payloads, r \in RecipientLists}
    /\ upload = NoUpload

envelope_unchanged ==
    UNCHANGED <<app_vars, run_app_result, message_rx, profiles, repo_records, likes,
                next_uuid, firehose_pos, ncalls, last_call, returned, peer_returned,
                firehose_vars, key_file, identity, own_profile, feed_posts, upload>>

EncryptAndEncode ==
    /\ envelope.stage = "plain"
    /\ \E file_key \in FileKeys :
         LET sealed == encrypt_and_encode(envelope.recipients, envelope.payload, file_key)
         IN envelope' = [envelope EXCEPT
                           !.stage = IF sealed.result = "Ok" THEN "sealed" ELSE "panicked",
                           !.wire = sealed.wire]
    /\ envelope_unchanged

DecryptAndDecode ==
    /\ envelope.stage = "sealed"
    /\ envelope' = [envelope EXCEPT !.stage = "opened",
                                     !.opened = decrypt_and_decode(identity, envelope.wire)]
    /\ envelope_unchanged

NextEnvelope ==
    \/ EncryptAndEncode
    \/ DecryptAndDecode

SpecEnvelope == InitEnvelope /\ [][NextEnvelope]_vars

\* ------------------------------------------------------------------ the launch

\* Launches of the client that are followed.
MaxLaunches == 3

\* What the identity file may hold at a launch: nothing, the text of an
\* identity, the start of one, or something else.
KeyFiles == {<<>>, <<"AGE-SECRET-KEY-1">>, <<"garbage">>}
                \cup {identity_to_string(k) : k \in SecretKeys}

\* What the profile may hold at a launch.
StoredProfiles ==
    {FullProfile("Alice", pub_key, notification, rc_map) :
        pub_key \in {<<>>, <<<<"garbage">>>>}
                       \cup {<<recipient_to_string(to_public(k))>> : k \in SecretKeys},
        notification \in {<<>>, <<1>>},
        rc_map \in {<<>>, <<"rc_map">>}}

IdentityFaults == {"none", "open", "read", "write_nothing", "write_part"}

\* The get_identity that writes a new identity at every launch.
get_identity_regenerating(file, generated, fault) ==
    IF fault \in {"open", "read"}
    THEN [result |-> "IoError", identity |-> None, file |-> file, path |-> "none"]
    ELSE [result |-> "Ok", identity |-> generated, file |-> identity_to_string(generated),
          path |-> "generated"]

\* get_identity: the file is opened, created if missing, and read; an empty
\* one gets the secret of a new identity, any other is parsed, and the
\* unwrap panics on a text that is no identity.  A write that fails leaves
\* nothing or a part of the text.
get_identity(file, generated, fault) ==
    IF fault \in {"open", "read"}
    THEN [result |-> "IoError", identity |-> None, file |-> file, path |-> "none"]
    ELSE IF file = <<>>
    THEN IF fault = "write_nothing"
         THEN [result |-> "IoError", identity |-> None, file |-> file, path |-> "none"]
         ELSE IF fault = "write_part"
         THEN [result |-> "IoError", identity |-> None,
               file |-> SubSeq(identity_to_string(generated), 1, 1), path |-> "none"]
         ELSE [result |-> "Ok", identity |-> generated,
               file |-> identity_to_string(generated), path |-> "generated"]
    ELSE LET parsed == identity_from_str(file)
         IN IF parsed.ok
            THEN [result |-> "Ok", identity |-> parsed.val, file |-> file, path |-> "parsed"]
            ELSE [result |-> "panic", identity |-> None, file |-> file, path |-> "none"]

launch_unchanged ==
    UNCHANGED <<app_vars, run_app_result, message_rx, profiles, repo_records, likes,
                next_uuid, firehose_pos, peer_returned, firehose_vars, envelope, upload>>

\* main: the launch gets its identity, or ends.
GetIdentity ==
    /\ ncalls < MaxLaunches
    /\ \E generated \in SecretKeys, fault \in IdentityFaults :
         LET got == get_identity(key_file, generated, fault)
         IN /\ key_file' = got.file
            /\ identity' = got.identity
            /\ last_call' = [NoCall EXCEPT !.op = "get_identity", !.n = ncalls + 1,
                                           !.result = got.result, !.path = got.path]
            /\ returned' = IF got.result = "Ok"
                           THEN returned \cup {<<got.path, got.identity>>} ELSE returned
    /\ ncalls' = ncalls + 1
    /\ UNCHANGED <<own_profile, feed_posts>>
    /\ launch_unchanged

\* App::get_recipient_for_bskyer on the local user: the profile record, or an
\* error when the fetch fails or the key on it is no recipient.
get_recipient_for_bskyer(stored, fails) ==
    IF fails THEN Err
    ELSE IF stored.bmail_pub_key # <<>> /\ ~recipient_from_str(stored.bmail_pub_key[1]).ok
    THEN Err
    ELSE Ok(stored)

\* upload_bmail_recipient: the record is fetched, the key set, the record put.
upload_bmail_recipient(stored, fault) ==
    LET fetched == get_recipient_for_bskyer(stored, fault = "upload_fetch")
    IN IF ~fetched.ok THEN [result |-> "InternalServerError", profile |-> stored]
       ELSE IF fault = "upload_put" THEN [result |-> "NetworkError", profile |-> stored]
       ELSE [result |-> "Ok",
             profile |-> [fetched.val EXCEPT
                            !.bmail_pub_key = <<recipient_to_string(to_public(identity))>>]]

\* The publication that puts a record with the post's reference alone.
create_notification_post_alone(stored, posts, fault) ==
    [result |-> IF fault = "create_post" THEN "panic" ELSE "Ok",
     profile |-> IF fault = "create_post" THEN stored
                 ELSE FullProfile(stored.display_name, <<>>, <<Len(posts) + 1>>, <<>>),
     posts |-> IF fault = "create_post" THEN posts ELSE Append(posts, NotificationPost)]

\* create_notification_post: the post is created (the unwrap panics when
\* that fails), the record is fetched again, the post's uri and cid set, the
\* record put.
create_notification_post(stored, posts, fault) ==
    IF fault = "create_post" THEN [result |-> "panic", profile |-> stored, posts |-> posts]
    ELSE LET posted == Append(posts, NotificationPost)
             fetched == get_recipient_for_bskyer(stored, fault = "post_fetch")
         IN IF ~fetched.ok
            THEN [result |-> "InternalServerError", profile |-> stored, posts |-> posted]
            ELSE IF fault = "post_put"
            THEN [result |-> "NetworkError", profile |-> stored, posts |-> posted]
            ELSE [result |-> "Ok",
                  profile |-> [fetched.val EXCEPT !.bmail_notification_uri = <<Len(posted)>>,
                                                  !.bmail_notification_cid = <<Len(posted)>>],
                  posts |-> posted]

\* The network call of an initialize that fails, if one does.
InitializeFaults ==
    {"none", "get_record", "upload_fetch", "upload_put", "create_post", "post_fetch",
     "post_put"}

\* initialize: the record is read once; the key is published when that
\* record has none, then the sentinel post when that record has none.
initialize(fault) ==
    LET profile_record == own_profile
        needs_key == profile_record.bmail_pub_key = <<>>
        needs_post == profile_record.bmail_notification_uri = <<>>
        keyed == IF needs_key THEN upload_bmail_recipient(own_profile, fault)
                 ELSE [result |-> "Ok", profile |-> own_profile]
        posted == IF keyed.result # "Ok"
                  THEN [result |-> keyed.result, profile |-> keyed.profile,
                        posts |-> feed_posts]
                  ELSE IF needs_post
                  THEN create_notification_post(keyed.profile, feed_posts, fault)
                  ELSE [result |-> "Ok", profile |-> keyed.profile, posts |-> feed_posts]
    IN
    /\ identity # None
    /\ ncalls < MaxLaunches
    /\ ncalls' = ncalls + 1
    /\ IF fault = "get_record"
       THEN /\ last_call' = [NoCall EXCEPT !.op = "initialize", !.n = ncalls + 1,
                                           !.result = "NetworkError"]
            /\ UNCHANGED <<own_profile, feed_posts>>
       ELSE /\ last_call' = [NoCall EXCEPT
                               !.op = "initialize", !.n = ncalls + 1,
                               !.result = posted.result,
                               !.path = IF needs_key /\ needs_post THEN "key, post"
                                        ELSE IF needs_key THEN "key"
                                        ELSE IF needs_post THEN "post" ELSE "none"]
            /\ own_profile' = posted.profile
            /\ feed_posts' = posted.posts
    /\ UNCHANGED <<key_file, identity, returned>>
    /\ launch_unchanged

Initialize == \E fault \in InitializeFaults : initialize(fault)

\* The client before its launch, on any identity file and any profile.
InitLaunch ==
    /\ Started
    /\ FirehoseQuiet
    /\ key_file \in KeyFiles
    /\ identity = None
    /\ own_profile \in StoredProfiles
    /\ feed_posts = IF own_profile.bmail_notification_uri = <<>> THEN <<>>
                    ELSE <<NotificationPost>>
    /\ envelope = NoEnvelope
    /\ upload = NoUpload

NextLaunch ==
    \/ GetIdentity
    \/ Initialize

SpecLaunch == InitLaunch /\ [][NextLaunch]_vars

\* ------------------------------------------------------------------ the directory upload among the clients of one user

\* Steps of the coordinator's uploads and of the other clients that are followed.
MaxUpdates == 3

\* The bindings the clients of the local user upload.
UploadKeys == {<<2, 3>>, <<1, 2>>}
UploadIds == {1, 2}
UploadDirectories == UNION {[keys -> UploadIds] : keys \in SUBSET UploadKeys}
DisplayNames == {"Alice", "Al"}

\* The decoded bmail_rc_map of a profile record, empty when it has none.
rc_map_of(profile) ==
    IF profile.bmail_rc_map = <<>> THEN EmptyMap ELSE decode(profile.bmail_rc_map[1])

\* get_record: the record's value with its content-id, which stands for
\* the content it was computed from.
get_record(stored, fails) ==
    IF fails THEN Err ELSE Ok([value |-> stored, cid |-> stored])

\* The put that replaces the record whatever it holds.
put_record_without_swap(stored, swap_record, value) == Ok(value)

\* put_record with swap_record: the record is replaced when its content-id
\* is the one given, and the call fails otherwise.
put_record(stored, swap_record, value) ==
    IF stored # swap_record THEN Err ELSE Ok(value)

upload_unchanged ==
    UNCHANGED <<app_vars, run_app_result, message_rx, profiles, repo_records, likes,
                next_uuid, firehose_pos, returned, peer_returned, firehose_vars,
                key_file, identity, feed_posts, envelope>>

\* upload_rc_map_to_profile, its first half: the own profile record is read.
upload_read ==
    /\ upload.stage = "idle"
    /\ ncalls < MaxUpdates
    /\ ncalls' = ncalls + 1
    /\ \E key \in UploadKeys, value \in UploadIds, fails \in BOOLEAN :
         LET profile_record == get_record(own_profile, fails)
         IN /\ upload' = IF profile_record.ok
                         THEN [stage |-> "read", key |-> key, value |-> value,
                               record |-> profile_record]
                         ELSE upload
            /\ last_call' = [NoCall EXCEPT !.op = "get_record", !.n = ncalls + 1,
                                           !.result = IF profile_record.ok THEN "Ok"
                                                      ELSE "BiskyError"]
    /\ UNCHANGED own_profile
    /\ upload_unchanged

\* upload_rc_map_to_profile, its second half: the entry is set in the map
\* that was read, or in a new map, and the record is put on the condition
\* that the profile still has the content-id that was read.
upload_write ==
    /\ upload.stage = "read"
    /\ \E fails \in BOOLEAN :
         LET changed == upload_rc_map_to_profile(upload.record.val.value, upload.key,
                                                 upload.value)
             put == IF fails THEN Err
                    ELSE put_record(own_profile, upload.record.val.cid, changed)
         IN /\ own_profile' = IF put.ok THEN put.val ELSE own_profile
            /\ last_call' = [NoCall EXCEPT
                               !.op = "upload_rc_map_to_profile", !.n = ncalls,
                               !.result = IF put.ok THEN "Ok" ELSE "BiskyError",
                               !.path = IF fails THEN "put_failed"
                                        ELSE IF put.ok THEN "put" ELSE "swap_refused"]
    /\ upload' = [upload EXCEPT !.stage = "idle"]
    /\ UNCHANGED ncalls
    /\ upload_unchanged

\* Another client of the local user uploads a binding of its own or edits
\* the display name, at any moment.
other_client ==
    /\ ncalls < MaxUpdates
    /\ ncalls' = ncalls + 1
    /\ \/ \E key \in UploadKeys, value \in UploadIds :
            own_profile' = upload_rc_map_to_profile(own_profile, key, value)
       \/ \E name \in DisplayNames : own_profile' = [own_profile EXCEPT !.display_name = name]
    /\ own_profile' # own_profile
    /\ UNCHANGED <<upload, last_call>>
    /\ upload_unchanged

\* The client launched, whatever directory its profile holds.
InitUpload ==
    /\ Started
    /\ FirehoseQuiet
    /\ key_file = identity_to_string(LocalKey)
    /\ identity = LocalKey
    /\ \E name \in DisplayNames, rc_map \in {<<>>} \cup {<<encode(m)>> : m \in UploadDirectories} :
          own_profile = FullProfile(name, <<recipient_to_string(to_public(LocalKey))>>,
                                    <<1>>, rc_map)
    /\ feed_posts = <<NotificationPost>>
    /\ envelope = NoEnvelope
    /\ upload = NoUpload

NextUpload ==
    \/ upload_read
    \/ upload_write
    \/ other_client

SpecUpload == InitUpload /\ [][NextUpload]_vars

\* ------------------------------------------------------------------ properties

\* The coordinator operation numbered ncalls' is the step taken.
CallStep(op) == ncalls' = ncalls + 1 /\ last_call'.n = ncalls' /\ last_call'.op = op
\* The coordinator takes an event from the channel.
IngestStep == message_rx # <<>> /\ message_rx' = Tail(message_rx)

Stored(messages, msg) == \E k \in DOMAIN messages : messages[k] = msg
Copies(messages, msg) == Cardinality({k \in DOMAIN messages : messages[k] = msg})
ResolvedDids(handles) == {resolve_handle(handles[i]) : i \in 1..Len(handles)}

\* C1: two successful loads whose handle lists are permutations of each
\* other return the same ConversationId.
CanonicalizationIdempotence ==
    \A p \in returned : \A q \in returned : IsPermutation(p[1], q[1]) => p[2] = q[2]

PermutedLoadsReturned ==
    \E p \in returned : \E q \in returned : p[1] # q[1] /\ IsPermutation(p[1], q[1])

\* C2: after a load that returned Ok(id), the in-memory directory and the
\* bmail_rc_map of the user's own profile both map the sorted participant
\* list to id.
DirectoryConsistency ==
    (last_call.op = "load_conversation" /\ last_call.result = "Ok") =>
        LET key == participant_dids(last_call.handles) IN
        /\ Lookup(recipients_conversation_map, key) = last_call.conv
        /\ Lookup(get_rc_map_from_profile(LocalDid), key) = last_call.conv

LeastFreeCount(messages, created_at) ==
    CHOOSE n \in 0..Cardinality(DOMAIN messages) :
        /\ <<created_at, n>> \notin DOMAIN messages
        /\ \A j \in 0..(n - 1) : <<created_at, j>> \in DOMAIN messages

AddedUnderLeastFreeCount(c_id, msg) ==
    LET before == conversations[c_id].messages IN
    ~Stored(before, msg) =>
        conversations'[c_id].messages =
            MapInsert(before, <<msg.created_at, LeastFreeCount(before, msg.created_at)>>, msg)

\* C4: a message that is not yet stored is added under its timestamp and the
\* smallest count not in use for that timestamp, (t,0) then (t,1), and every
\* message stored before stays under its key.
CollisionTakesNextCount ==
    [][/\ (/\ IngestStep
           /\ into_decrypted_message(Head(message_rx)).ok
           /\ Head(message_rx).bmail_conversation_id \in DOMAIN conversations)
          => AddedUnderLeastFreeCount(Head(message_rx).bmail_conversation_id,
                                      into_decrypted_message(Head(message_rx)).msg)
       /\ (/\ CallStep("send_bmail")
           /\ last_call'.path = "published"
           /\ last_call'.conv \in DOMAIN conversations)
          => AddedUnderLeastFreeCount(last_call'.conv, last_call'.msg)]_vars

TwoAtSameTimestamp ==
    \E c_id \in DOMAIN conversations :
        LET messages == conversations[c_id].messages IN
        /\ DOMAIN messages = {<<1, 0>>, <<1, 1>>}
        /\ messages[<<1, 0>>].message = "hi"
        /\ messages[<<1, 1>>].message = "yo"

\* C5: every conversation in the store has a sorted participant list that
\* contains the local DID.
ParticipantsSortedWithLocalDid ==
    \A c_id \in DOMAIN conversations :
        /\ IsSorted(conversations[c_id].participants)
        /\ LocalDid \in Range(conversations[c_id].participants)

ThreePartyConversationStored ==
    \E c_id \in DOMAIN conversations : conversations[c_id].participants = <<1, 2, 3>>

\* C6: after the coordinator has taken a decryptable Message event, the
\* conversation of the event is in the store, holds the message, and the
\* coordinator is still running.
UnknownConversationIsBuffered ==
    (last_call.op = "ingest" /\ last_call.result # "DecryptError") =>
        /\ run_app_result = "running"
        /\ last_call.conv \in DOMAIN conversations
        /\ Stored(conversations[last_call.conv].messages, last_call.msg)

PublishedRecordSealedToSelfAndPeers ==
    /\ \A i \in 1..Len(repo_records) :
          LET r == repo_records[i] IN
          r.repo = LocalDid =>
              /\ r.bmail_type = "bmail"
              /\ r.bmail_creator = LocalDid
              /\ r.bmail_version = 0
              /\ IsSorted(r.bmail_recipients)
              /\ LocalDid \in Range(r.bmail_recipients)
              /\ CanOpen(LocalDid, r.bmail_cipher_text)
    /\ (last_call.op = "send_bmail" /\ last_call.path = "published") =>
          \E i \in 1..Len(repo_records) :
              /\ repo_records[i] = into_bmail_record(last_call.msg)
              /\ repo_records[i].bmail_conversation_id = last_call.conv
              /\ ResolvedDids(last_call.handles) \subseteq Range(repo_records[i].bmail_recipients)

\* C9: a send publishes only when the sorted DIDs resolved from its handles
\* equal the stored participants of its conversation.
SendRejectsParticipantMismatch ==
    (last_call.op = "send_bmail" /\ last_call.path = "published") =>
        /\ last_call.conv \in DOMAIN conversations
        /\ last_call.msg.recipients = conversations[last_call.conv].participants

PollStep == last_call'.op = "poll" /\ (last_call' # last_call \/ received' # received)

\* C11: every frame that put an event on the channel has a first operation
\* whose path starts with the profile collection.
FrameOffProfilePathIsDropped ==
    \A i \in 1..Len(sent) : sent[i].operations[1].path = "app.bsky.actor.profile/"

\* C12: every bmail record that put a Message event on the channel has the
\* local DID among its recipients.
BmailForOthersIsDropped ==
    \A i \in 1..Len(sent) :
        sent[i].record.bmail_type = "bmail" =>
            LocalDid \in Range(sent[i].record.bmail_recipients)

\* C13: every record that put a Message event on the channel has the
\* bmail_type "bmail".
OnlyBmailTypeIsEnqueued ==
    \A i \in 1..Len(sent) : sent[i].record.bmail_type = "bmail"

\* C14: no frame ends the firehose task: the task panics on none, returns an
\* error for none that it cannot decrypt, and returns only when the stream
\* has ended.
BadFrameIsSkipped ==
    /\ ingestor.task \notin {"panicked", "DecryptError"}
    /\ ingestor.task = "Ok" => socket = <<>>

\* C15: the firehose task never waits on the channel send while it holds the
\* lock of the network client.
LockNotHeldAcrossSend ==
    (ingestor.task = "running" /\ ingestor.pc = "send") => bsky_lock # "ingestor"

\* C16: the channel never holds more than 32 events; the events enqueued are,
\* in order, the events received followed by the events waiting; a send at 32
\* waits until the coordinator receives; a send after the receiver is gone
\* ends the task with an error and enqueues nothing.
ChannelBoundedBlockingFifo ==
    /\ [](/\ Len(message_rx) <= ChannelCapacity
          /\ [i \in 1..Len(sent) |-> BMessage(sent[i])] = received \o message_rx)
    /\ [][(ingestor.task = "running" /\ ingestor.pc = "send") =>
            /\ (Len(message_rx) = ChannelCapacity /\ run_app_result = "running")
                  => (ingestor' = ingestor /\ sent' = sent)
            /\ (run_app_result # "running" /\ ingestor' # ingestor)
                  => (ingestor'.task = "TokioSendError" /\ message_rx' = message_rx)]_vars

SendBlockedAtCapacity ==
    /\ Len(message_rx) = ChannelCapacity
    /\ ingestor.task = "running"
    /\ ingestor.pc = "send"
    /\ run_app_result = "running"
    /\ received # <<>>

\* C17 as stated: a poll after the firehose task has ended reports
\* FirehoseProcessCrashed.
CrashSurfacedOnNextPoll ==
    [][(ingestor.task # "running" /\ PollStep)
       => run_app_result' = "FirehoseProcessCrashed"]_vars

\* C17 as amended: a poll after the firehose task has ended takes the next
\* waiting event if one waits, and reports FirehoseProcessCrashed and ends
\* run_app with it if none does.
CrashSurfacedOnceDrained ==
    [][(ingestor.task # "running" /\ PollStep)
       => IF message_rx = <<>>
          THEN /\ run_app_result' = "FirehoseProcessCrashed"
               /\ received' = received
          ELSE /\ run_app_result' # "FirehoseProcessCrashed"
               /\ received' = Append(received, Head(message_rx))
               /\ message_rx' = Tail(message_rx)]_vars

CrashReportedAfterDrain ==
    /\ run_app_result = "FirehoseProcessCrashed"
    /\ ingestor.task = "panicked"
    /\ received # <<>>
    /\ message_rx = <<>>

\* C18: when a peer's profile binds the pair of the peer and the local user
\* to an id, and neither the in-memory directory nor the local user's profile
\* binds the pair, a load of the pair returns the peer's id and leaves the
\* in-memory directory and both profiles binding the pair to it.
PeerOriginatedIdAdopted ==
    [][\A peer \in Peers :
         LET key == Sort(<<peer, LocalDid>>)
             c2 == Lookup(get_rc_map_from_profile(peer), key)
         IN (/\ CallStep("load_conversation")
             /\ participant_dids(last_call'.handles) = key
             /\ c2 # None
             /\ Lookup(recipients_conversation_map, key) = None
             /\ Lookup(get_rc_map_from_profile(LocalDid), key) = None)
            => /\ last_call'.result = "Ok"
               /\ last_call'.conv = c2
               /\ Lookup(recipients_conversation_map', key) = c2
               /\ profiles'[LocalDid].bmail_rc_map # <<>>
               /\ Lookup(decode(profiles'[LocalDid].bmail_rc_map[1]), key) = c2
               /\ profiles'[peer] = profiles[peer]]_vars

PeerIdAdopted ==
    /\ last_call.op = "load_conversation"
    /\ last_call.handles = <<"bob">>
    /\ last_call.path = "peer"
    /\ last_call.result = "Ok"
    /\ <<3, last_call.conv>> \in peer_returned
    /\ Lookup(recipients_conversation_map, <<2, 3>>) = last_call.conv
    /\ Lookup(get_rc_map_from_profile(LocalDid), <<2, 3>>) = last_call.conv

\* C19: once the local user and a peer have both loaded their conversation
\* again, they bind it to the same id.
ReloadsConverge ==
    \A p \in returned : \A q \in peer_returned :
        participant_dids(p[1]) = Sort(<<q[1], LocalDid>>) => p[2] = q[2]

NotificationFailureIsWarning ==
    (last_call.op = "send_bmail" /\ last_call.path = "published")
    => /\ last_call.result = "Ok"
       /\ \E i \in 1..Len(repo_records) : repo_records[i] = into_bmail_record(last_call.msg)
       /\ last_call.conv \in DOMAIN conversations
            => Stored(conversations[last_call.conv].messages, last_call.msg)
       /\ Cardinality({d \in ResolvedDids(last_call.handles) :
                          BmailLike(d, last_call.conv, last_call.handles) \notin likes}) <= 1

\* C22: a load that is not answered from the in-memory directory, while the
\* fetch of the local user's own bmail_rc_map fails, returns an error.
SelfLookupFailureIsFatal ==
    (last_call.op = "load_conversation" /\ last_call.path # "memory")
    => last_call.result # "Ok"

\* C23: when carol's profile cannot be fetched, a load of a list that
\* neither the in-memory directory nor the local user's profile binds, and
\* that another peer's profile binds, adopts that peer's id.
FailingPeerIsSkipped ==
    [][LET key == participant_dids(last_call'.handles)
           holders == {d \in Range(key) \ {LocalDid} :
                          Lookup(get_rc_map_from_profile(d), key) # None}
       IN (/\ CallStep("load_conversation")
           /\ Lookup(recipients_conversation_map, key) = None
           /\ Lookup(get_rc_map_from_profile(LocalDid), key) = None
           /\ holders # {})
          => /\ last_call'.path = "peer"
             /\ \E d \in holders :
                   last_call'.conv = Lookup(get_rc_map_from_profile(d), key)]_vars

NoDuplicateParticipants ==
    /\ \A key \in DOMAIN recipients_conversation_map :
         \A i \in 1..Len(key) : \A j \in 1..Len(key) : key[i] = key[j] => i = j
    /\ \A p \in returned : \A q \in returned :
         ResolvedDids(p[1]) \cup {LocalDid} = ResolvedDids(q[1]) \cup {LocalDid}
            => p[2] = q[2]

\* C29: a load that succeeds returns the id of the first source that binds
\* the list, in the order in-memory directory, local user's profile, peers'
\* profiles, and an id that no source has handed out when none binds it.
LoadUsesFirstSource ==
    [][LET key == participant_dids(last_call'.handles)
           in_memory == Lookup(recipients_conversation_map, key)
           mine == Lookup(get_rc_map_from_profile(LocalDid), key)
           held == {Lookup(get_rc_map_from_profile(d), key) : d \in Range(key) \ {LocalDid}}
                      \ {None}
       IN (CallStep("load_conversation") /\ last_call'.result = "Ok")
          => IF in_memory # None THEN last_call'.conv = in_memory /\ next_uuid' = next_uuid
             ELSE IF mine # None THEN last_call'.conv = mine /\ next_uuid' = next_uuid
             ELSE IF held # {} THEN last_call'.conv \in held /\ next_uuid' = next_uuid
             ELSE last_call'.conv = next_uuid' /\ next_uuid' > next_uuid]_vars

EnvelopeRoundTrip ==
    (/\ envelope.stage = "opened"
     /\ \E i \in 1..Len(envelope.recipients) : envelope.recipients[i] = to_public(identity))
    => envelope.opened = Ok(envelope.payload)

\* A payload of two bytes or more, sealed to another key and then to the
\* identity's, has been opened.
EnvelopeOpened ==
    /\ envelope.stage = "opened"
    /\ Len(envelope.payload) >= 2
    /\ Len(envelope.recipients) = 2
    /\ envelope.recipients[1] # to_public(identity)
    /\ envelope.recipients[2] = to_public(identity)
    /\ envelope.opened = Ok(envelope.payload)

\* C27 as stated: an initialize that succeeds leaves the public key of the
\* local identity and the reference of a sentinel post on the profile.
InitializePublishesLocalKey ==
    [][(CallStep("initialize") /\ last_call'.result = "Ok")
       => /\ own_profile'.bmail_pub_key = <<recipient_to_string(to_public(identity))>>
          /\ own_profile'.bmail_notification_uri # <<>>
          /\ own_profile'.bmail_notification_cid # <<>>]_vars

\* C27 as amended: an initialize that succeeds keeps a key that the profile
\* had and sets the public key of the local identity when it had none, keeps
\* a post reference that the profile had and sets the reference of a sentinel
\* post it has created when it had none, and leaves every other field.
InitializeFillsWhatIsMissing ==
    [][(CallStep("initialize") /\ last_call'.result = "Ok")
       => /\ own_profile'.bmail_pub_key =
                IF own_profile.bmail_pub_key = <<>>
                THEN <<recipient_to_string(to_public(identity))>>
                ELSE own_profile.bmail_pub_key
          /\ IF own_profile.bmail_notification_uri = <<>>
             THEN /\ feed_posts' = Append(feed_posts, NotificationPost)
                  /\ own_profile'.bmail_notification_uri = <<Len(feed_posts')>>
                  /\ own_profile'.bmail_notification_cid = <<Len(feed_posts')>>
             ELSE /\ feed_posts' = feed_posts
                  /\ own_profile'.bmail_notification_uri = own_profile.bmail_notification_uri
                  /\ own_profile'.bmail_notification_cid = own_profile.bmail_notification_cid
          /\ own_profile'.bmail_pub_key # <<>>
          /\ own_profile'.bmail_notification_uri # <<>>
          /\ own_profile'.bmail_notification_cid # <<>>
          /\ own_profile'.display_name = own_profile.display_name
          /\ own_profile'.bmail_rc_map = own_profile.bmail_rc_map]_vars

\* An initialize has published the key and then the sentinel post, and both
\* are on the profile.
KeyAndPostPublished ==
    /\ last_call.op = "initialize"
    /\ last_call.result = "Ok"
    /\ last_call.path = "key, post"
    /\ own_profile.bmail_pub_key = <<recipient_to_string(to_public(identity))>>
    /\ own_profile.bmail_notification_uri = <<1>>
    /\ own_profile.bmail_notification_cid = <<1>>
    /\ feed_posts = <<NotificationPost>>

\* C28: a get_identity that succeeds on an empty file leaves the text of the
\* identity it returns in the file, one that succeeds on any other file
\* leaves the file as it is and returns the identity whose text the file
\* holds, and all the identities returned are one.
IdentityNeverRotated ==
    /\ [](\A p \in returned : \A q \in returned : p[2] = q[2])
    /\ [](identity # None => key_file = identity_to_string(identity))
    /\ [][(CallStep("get_identity") /\ last_call'.result = "Ok")
          => IF key_file = <<>>
             THEN identity' \in SecretKeys /\ key_file' = identity_to_string(identity')
             ELSE /\ key_file' = key_file
                  /\ identity_to_string(identity') = key_file
                  /\ identity # None => identity' = identity]_vars

\* An identity has been generated at one launch and read back at a later one.
IdentityReadBack ==
    /\ last_call.op = "get_identity"
    /\ last_call.result = "Ok"
    /\ last_call.path = "parsed"
    /\ <<"generated", identity>> \in returned
    /\ <<"parsed", identity>> \in returned

\* C31: a load that succeeds inserts no record of a participant whose time
\* is at or below the participant's high-water mark, leaves the mark at the
\* greatest time among the mark before and the participant's records, never
\* below the mark before, and no conversation holds a message twice.
BackfillRespectsHighWaterMark ==
    /\ [](\A c \in DOMAIN conversations :
            \A k1 \in DOMAIN conversations[c].messages :
               \A k2 \in DOMAIN conversations[c].messages :
                  conversations[c].messages[k1] = conversations[c].messages[k2] => k1 = k2)
    /\ [][(CallStep("load_conversation") /\ last_call'.result = "Ok")
          => LET c == last_call'.conv
                 known == c \in DOMAIN conversations
                 new == conversations'[c]
             IN \A d \in Range(new.participants) :
                  LET recs == RecordsOf(repo_records, d, c)
                      before == IF known THEN ActiveTime(conversations[c], d) ELSE 0
                      times == {recs[i].bmail_created_at : i \in 1..Len(recs)} \cup {before}
                  IN /\ ActiveTime(new, d) >= before
                     /\ ActiveTime(new, d) \in times
                     /\ \A t \in times : t <= ActiveTime(new, d)
                     /\ \A i \in 1..Len(recs) :
                          LET m == into_decrypted_message(recs[i])
                          IN (/\ recs[i].bmail_created_at <= before
                              /\ m.ok
                              /\ known
                              /\ ~Stored(conversations[c].messages, m.msg))
                             => ~Stored(new.messages, m.msg)]_vars

\* bob has published a record older than his high-water mark, and a load
\* has left it out of the conversation.
OlderRecordLeftOut ==
    /\ last_call.op = "load_conversation"
    /\ last_call.result = "Ok"
    /\ last_call.conv = 1
    /\ ActiveTime(conversations[1], 3) = 2
    /\ \E i \in 1..Len(repo_records) :
         /\ repo_records[i].repo = 3
         /\ repo_records[i].bmail_conversation_id = 1
         /\ repo_records[i].bmail_created_at = 1
         /\ into_decrypted_message(repo_records[i]).ok
         /\ ~Stored(conversations[1].messages, into_decrypted_message(repo_records[i]).msg)

\* C32: a Message event the coordinator cannot decrypt or cannot insert is a
\* transient error: the store is as before, run_app keeps running and the
\* events after it are still processed.
IngestErrorIsTransient ==
    [][(IngestStep /\ last_call'.op = "ingest" /\ last_call'.result # "Ok")
          => /\ conversations' = conversations
             /\ run_app_result' = "running"]_vars

\* C33: over any sequence of initialize calls, the failed and retried ones
\* included, at most one sentinel post exists on the user's feed, and when
\* one exists the profile's bmail_notification_uri and bmail_notification_cid
\* are the reference of it.
AtMostOneSentinelPost ==
    /\ Len(feed_posts) <= 1
    /\ feed_posts # <<>> =>
          /\ own_profile.bmail_notification_uri = <<Len(feed_posts)>>
          /\ own_profile.bmail_notification_cid = <<Len(feed_posts)>>

\* C34: a send publishes its record, then inserts the message into the local
\* conversation, then publishes the notifications: a send whose record is not
\* published leaves the repository, the Conversation Store and the likes as
\* they were, a send creates a like only when its record is in the repository
\* and its message in the conversation, and the record and the message are
\* there whether or not the notifications that follow succeed.
SendPublishesThenInsertsThenNotifies ==
    [][CallStep("send_bmail")
       => /\ last_call'.path # "published"
               => /\ repo_records' = repo_records
                  /\ conversations' = conversations
                  /\ likes' = likes
          /\ likes' # likes => last_call'.path = "published"
          /\ last_call'.path = "published"
               => /\ repo_records' = Append(repo_records, into_bmail_record(last_call'.msg))
                  /\ last_call'.conv \in DOMAIN conversations'
                  /\ Stored(conversations'[last_call'.conv].messages, last_call'.msg)]_vars

\* A send has failed at the publication of its record, after an earlier send
\* was published and notified.
PublishFailedAfterNotifiedSend ==
    /\ last_call.op = "send_bmail"
    /\ last_call.path = "publish_failed"
    /\ last_call.result = "NetworkError"
    /\ Len(repo_records) = 1
    /\ likes # {}
    /\ ~Stored(conversations[last_call.conv].messages, last_call.msg)

\* C35: the ingestor and the coordinator never deadlock: in no state does the
\* ingestor wait for room in the channel or for the lock while the
\* coordinator waits for the lock, and the coordinator never asks for the
\* lock while it holds it.
IngestorAndCoordinatorNeverDeadlock ==
    LET ingestor_waits ==
            /\ ingestor.task = "running"
            /\ \/ /\ ingestor.pc = "send"
                  /\ run_app_result = "running"
                  /\ ~has_capacity(message_rx)
               \/ /\ ingestor.pc = "next"
                  /\ socket # <<>>
                  /\ Head(socket).wire = "binary"
                  /\ bsky_lock # "none"
        coordinator_waits ==
            /\ coordinator # <<>>
            /\ Head(coordinator) = "lock"
            /\ bsky_lock # "none"
    IN /\ ~(ingestor_waits /\ coordinator_waits)
       /\ ~(coordinator # <<>> /\ Head(coordinator) = "lock" /\ bsky_lock = "coordinator")

\* C36: a load_conversation that returns an error leaves the in-memory
\* directory, the Conversation Store and current_conversation_id as they were
\* before the call.
FailedLoadChangesNothing ==
    [][(CallStep("load_conversation") /\ last_call'.result # "Ok")
       => /\ recipients_conversation_map' = recipients_conversation_map
          /\ conversations' = conversations
          /\ current_conversation_id' = current_conversation_id]_vars

\* C37: the write of upload_rc_map_to_profile(key, value) leaves every entry
\* of the profile's bmail_rc_map other than the one for key and every other
\* field of the profile as the profile holds them at that moment; when it
\* succeeds the profile is the record that was read with key bound to value,
\* and when another client has changed the profile since the read it fails
\* and changes nothing.
UploadChangesOnlyItsEntry ==
    [][(upload.stage = "read" /\ upload'.stage = "idle")
       => LET before == rc_map_of(own_profile)
              after == rc_map_of(own_profile')
          IN /\ \A k \in UploadKeys \ {upload.key} :
                   /\ k \in DOMAIN before <=> k \in DOMAIN after
                   /\ k \in DOMAIN before => after[k] = before[k]
             /\ DOMAIN after \subseteq DOMAIN before \cup {upload.key}
             /\ own_profile'.display_name = own_profile.display_name
             /\ own_profile'.bmail_pub_key = own_profile.bmail_pub_key
             /\ own_profile'.bmail_notification_uri = own_profile.bmail_notification_uri
             /\ own_profile'.bmail_notification_cid = own_profile.bmail_notification_cid
             /\ last_call'.result = "Ok"
                   => /\ own_profile = upload.record.val.value
                      /\ upload.key \in DOMAIN after
                      /\ after[upload.key] = upload.value
             /\ last_call'.result # "Ok" => own_profile' = own_profile
             /\ own_profile # upload.record.val.cid => own_profile' = own_profile]_vars

\* An upload has been refused because another client bound a different key
\* on the profile after the upload had read it, and that binding is kept.
ConcurrentUpdateKept ==
    /\ upload.stage = "idle"
    /\ last_call.op = "upload_rc_map_to_profile"
    /\ last_call.path = "swap_refused"
    /\ \E k \in UploadKeys \ {upload.key} :
          /\ k \in DOMAIN rc_map_of(own_profile)
          /\ k \notin DOMAIN rc_map_of(upload.record.val.value)
    /\ upload.key \notin DOMAIN rc_map_of(own_profile)

SelectionIsValidIndex ==
    conversation_state = NoSelection
    \/ /\ current_conversation_id # None
       /\ current_conversation_id \in DOMAIN conversations
       /\ 0 <= conversation_state
       /\ conversation_state
             < Cardinality(DOMAIN conversations[current_conversation_id].messages)

====
